---------------------------- MODULE Spec2Model ----------------------------
(***************************************************************************)
(* Model of merge-product-media (src/src/merge-product-media.ts): the      *)
(* product-to-page media matcher.  Strings are TLA+ strings, read          *)
(* character by character with SubSeq; JSON values carry their JavaScript  *)
(* type in a tag, so that the typeof tests of the code are decided by the  *)
(* model and not assumed.                                                  *)
(***************************************************************************)
EXTENDS Integers, Sequences, FiniteSets, TLC

(***************************************************************************)
(* JSON / JavaScript values                                                *)
(***************************************************************************)
\* t is the JavaScript type; s, n and a hold the text of a string, the value
\* of a number and the elements of an array
Str(x) == [t |-> "string", s |-> x, n |-> 0, a |-> <<>>]
Num(x) == [t |-> "number", s |-> "", n |-> x, a |-> <<>>]
Arr(x) == [t |-> "array", s |-> "", n |-> 0, a |-> x]
Undef == [t |-> "undefined", s |-> "", n |-> 0, a |-> <<>>]

IsStr(x) == x.t = "string"
IsArr(x) == x.t = "array"

\* obj.field of a JSON object: undefined when the object has no such field
Field(obj, f) == IF f \in DOMAIN obj THEN obj[f] ELSE Undef

\* Boolean(x) for the values used here: only the non-empty string, every
\* array and every non-zero number are truthy
Truthy(x) ==
    CASE x.t = "string" -> x.s # ""
      [] x.t = "number" -> x.n # 0
      [] x.t = "array" -> TRUE
      [] OTHER -> FALSE

(***************************************************************************)
(* JavaScript string built-ins                                             *)
(***************************************************************************)
MinOf(S) == CHOOSE i \in S : \A j \in S : i <= j
MaxOf(S) == CHOOSE i \in S : \A j \in S : i >= j

Ch(s, i) == SubSeq(s, i, i)

StartsAt(s, pat, i) ==
    /\ i >= 1
    /\ i + Len(pat) - 1 <= Len(s)
    /\ SubSeq(s, i, i + Len(pat) - 1) = pat

\* 1-based position of the first occurrence of pat at or after from, 0 if none
IndexOfFrom(s, pat, from) ==
    LET hits == {i \in from..(Len(s) - Len(pat) + 1) : StartsAt(s, pat, i)}
    IN  IF hits = {} THEN 0 ELSE MinOf(hits)

includes(s, pat) == IndexOfFrom(s, pat, 1) # 0

endsWith(s, pat) ==
    Len(pat) <= Len(s) /\ SubSeq(s, Len(s) - Len(pat) + 1, Len(s)) = pat

startsWith(s, pat) == StartsAt(s, pat, 1)

\* String.prototype.replace with a string pattern: the first occurrence only
replace(s, pat, rep) ==
    LET i == IndexOfFrom(s, pat, 1)
    IN  IF i = 0 THEN s
        ELSE SubSeq(s, 1, i - 1) \o rep \o SubSeq(s, i + Len(pat), Len(s))

RECURSIVE replaceAllFrom(_, _, _, _)
replaceAllFrom(s, pat, rep, from) ==
    LET i == IndexOfFrom(s, pat, from)
    IN  IF i = 0 THEN SubSeq(s, from, Len(s))
        ELSE SubSeq(s, from, i - 1) \o rep
                \o replaceAllFrom(s, pat, rep, i + Len(pat))

replaceAll(s, pat, rep) == replaceAllFrom(s, pat, rep, 1)

RECURSIVE splitFrom(_, _, _)
splitFrom(s, sep, from) ==
    LET j == IndexOfFrom(s, sep, from)
    IN  IF j = 0 THEN <<SubSeq(s, from, Len(s))>>
        ELSE <<SubSeq(s, from, j - 1)>> \o splitFrom(s, sep, j + Len(sep))

\* String.prototype.split with a string separator (empty pieces are kept)
split(s, sep) == splitFrom(s, sep, 1)

\* Array.prototype.filter(Boolean) on an array of strings
RECURSIVE filterBoolean(_)
filterBoolean(a) ==
    IF a = <<>> THEN <<>>
    ELSE IF Head(a) # "" THEN <<Head(a)>> \o filterBoolean(Tail(a))
    ELSE filterBoolean(Tail(a))

WhiteSpace == {" ", "\n", "\t", "\r"}
IsWs(s, i) == i >= 1 /\ i <= Len(s) /\ Ch(s, i) \in WhiteSpace

trim(s) ==
    LET keep == {i \in 1..Len(s) : ~IsWs(s, i)}
    IN  IF keep = {} THEN "" ELSE SubSeq(s, MinOf(keep), MaxOf(keep))

UpperAlpha == "ABCDEFGHIJKLMNOPQRSTUVWXYZ"
LowerAlpha == "abcdefghijklmnopqrstuvwxyz"
Digits == "0123456789"

LowerCh(c) ==
    LET i == IndexOfFrom(UpperAlpha, c, 1)
    IN  IF c = "" \/ i = 0 THEN c ELSE Ch(LowerAlpha, i)

RECURSIVE toLowerCase(_)
toLowerCase(s) ==
    IF s = "" THEN "" ELSE LowerCh(Head(s)) \o toLowerCase(Tail(s))

(***************************************************************************)
(* new URL(s), for the URLs the matcher meets: an http or https scheme     *)
(* followed by //, a host, a path, an optional ?query and an optional      *)
(* #fragment.  Any other string has no scheme the parser accepts without a *)
(* base and makes new URL throw.  The parser lower-cases scheme and host,  *)
(* drops tabs and line breaks, reads a backslash of the path as a slash,   *)
(* gives an empty path as "/" and writes a space as %20.                   *)
(***************************************************************************)
RECURSIVE dropChars(_, _)
dropChars(s, drop) ==
    IF s = "" THEN ""
    ELSE IF Head(s) \in drop THEN dropChars(Tail(s), drop)
    ELSE Head(s) \o dropChars(Tail(s), drop)

SchemeLen(s) ==
    IF Len(s) >= 8 /\ toLowerCase(SubSeq(s, 1, 8)) = "https://" THEN 8
    ELSE IF Len(s) >= 7 /\ toLowerCase(SubSeq(s, 1, 7)) = "http://" THEN 7
    ELSE 0

\* first position at or after from holding one of the characters, else Len+1
FirstOf(s, chars, from) ==
    LET hits == {i \in from..Len(s) : Ch(s, i) \in chars}
    IN  IF hits = {} THEN Len(s) + 1 ELSE MinOf(hits)

BadUrl == [ok |-> FALSE, scheme |-> "", host |-> "", pathname |-> "",
           query |-> Undef, fragment |-> Undef]

\* the parts of s: the scheme ends at n, the host at hEnd, the path at pEnd
\* and the query at fStart (all exclusive)
UrlParts(s, n, hEnd, pEnd, fStart) ==
    IF hEnd = n + 1 \/ includes(SubSeq(s, n + 1, hEnd - 1), " ") THEN BadUrl
    ELSE [ok |-> TRUE,
          scheme |-> toLowerCase(SubSeq(s, 1, n - 3)),
          host |-> toLowerCase(SubSeq(s, n + 1, hEnd - 1)),
          pathname |-> IF pEnd = hEnd THEN "/"
                       ELSE replaceAll(replaceAll(SubSeq(s, hEnd, pEnd - 1),
                                                  "\\", "/"), " ", "%20"),
          query |-> IF pEnd <= Len(s) /\ Ch(s, pEnd) = "?"
                    THEN Str(replaceAll(SubSeq(s, pEnd + 1, fStart - 1),
                                        " ", "%20"))
                    ELSE Undef,
          fragment |-> IF fStart <= Len(s)
                       THEN Str(replaceAll(SubSeq(s, fStart + 1, Len(s)),
                                           " ", "%20"))
                       ELSE Undef]

ParseFromPath(s, n, hEnd, pEnd) ==
    UrlParts(s, n, hEnd, pEnd, FirstOf(s, {"#"}, pEnd))

ParseFromHost(s, n, hEnd) ==
    ParseFromPath(s, n, hEnd, FirstOf(s, {"?", "#"}, hEnd))

ParseFromScheme(s, n) ==
    IF n = 0 THEN BadUrl
    ELSE ParseFromHost(s, n, FirstOf(s, {"/", "\\", "?", "#"}, n + 1))

ParseClean(s) == ParseFromScheme(s, SchemeLen(s))

ParseUrl(input) == ParseClean(dropChars(trim(input), {"\t", "\n", "\r"}))

\* URL.prototype.toString
Href(u) ==
    u.scheme \o "://" \o u.host \o u.pathname
      \o (IF IsStr(u.query) THEN "?" \o u.query.s ELSE "")
      \o (IF IsStr(u.fragment) THEN "#" \o u.fragment.s ELSE "")

\* u.hash = '' and u.search = '' remove the fragment and the query
ClearHash(u) == [u EXCEPT !.fragment = Undef]
ClearSearch(u) == [u EXCEPT !.query = Undef]

(***************************************************************************)
(* The matcher's pure functions                                            *)
(***************************************************************************)
\* lines 33-41: the try block on the parsed s, the catch when it throws
urlishOf(s, u) == IF u.ok THEN Href(ClearHash(u)) ELSE s

urlishOfText(s) == urlishOf(s, ParseUrl(s))

normalizeUrlish(input) == urlishOfText(replaceAll(trim(input), "\\/", "/"))

\* the catch cutting the text at the first ? for the form without query
matchFormsCutQuery(normalized, u) ==
    IF u.ok THEN [full |-> Href(u), noQuery |-> Href(ClearSearch(u))]
    ELSE [full |-> normalized,
          noQuery |-> SubSeq(normalized, 1, FirstOf(normalized, {"?"}, 1) - 1)]

\* lines 46-54: the try block on the parsed normalized, the catch
matchFormsOf(normalized, u) ==
    IF u.ok THEN [full |-> Href(u), noQuery |-> Href(ClearSearch(u))]
    ELSE [full |-> normalized, noQuery |-> normalized]

matchForms(normalized) == matchFormsOf(normalized, ParseUrl(normalized))

normalizeForMatch(urlStr) == matchForms(normalizeUrlish(urlStr))

\* last element of an array of strings, undefined for the empty array
LastOf(parts) == IF parts = <<>> THEN Undef ELSE Str(parts[Len(parts)])

pathTailOf(urlStr, u) ==
    IF u.ok THEN LastOf(filterBoolean(split(u.pathname, "/")))
    ELSE LastOf(filterBoolean(split(urlStr, "/")))

pathTail(urlStr) == pathTailOf(urlStr, ParseUrl(urlStr))

(***************************************************************************)
(* splitOldUrls: split on /\s*[\n,;]+\s*|\s{2,}/g, trim, drop the empty.   *)
(* SepEnd(s, i) is the end (exclusive) of the regular expression's match   *)
(* starting at position i, 0 when it does not match there.                 *)
(***************************************************************************)
SepChars == {"\n", ",", ";"}

\* end (exclusive) of the longest run of characters of the set from i on
RunEnd(s, chars, i) ==
    LET stops == {j \in i..Len(s) : Ch(s, j) \notin chars}
    IN  IF stops = {} THEN Len(s) + 1 ELSE MinOf(stops)

SepEnd(s, i) ==
    LET wsEnd == RunEnd(s, WhiteSpace, i)
        \* \s* is greedy and gives back until [\n,;]+ can start
        starts == {k \in i..wsEnd : k <= Len(s) /\ Ch(s, k) \in SepChars}
    IN  IF starts # {}
        THEN RunEnd(s, WhiteSpace, RunEnd(s, SepChars, MaxOf(starts)))
        ELSE IF wsEnd - i >= 2 THEN wsEnd
        ELSE 0

RECURSIVE splitRegexFrom(_, _)
splitRegexFrom(s, from) ==
    LET hits == {i \in from..Len(s) : SepEnd(s, i) # 0}
    IN  IF hits = {} THEN <<SubSeq(s, from, Len(s))>>
        ELSE <<SubSeq(s, from, MinOf(hits) - 1)>>
                \o splitRegexFrom(s, SepEnd(s, MinOf(hits)))

RECURSIVE mapTrim(_)
mapTrim(a) ==
    IF a = <<>> THEN <<>> ELSE <<trim(Head(a))>> \o mapTrim(Tail(a))

\* the map over trim forgotten
splitNoTrim(oldUrls) == filterBoolean(splitRegexFrom(oldUrls, 1))

splitOldUrls(oldUrls) == filterBoolean(mapTrim(splitRegexFrom(oldUrls, 1)))

(***************************************************************************)
(* tokenizeSlug                                                            *)
(***************************************************************************)
StopWords == {"golf", "of", "the", "and", "tour", "tours", "short", "break",
              "links", "experience", "test"}

MinTokenLen == 3

AlnumChars == {Ch(LowerAlpha, i) : i \in 1..Len(LowerAlpha)}
                 \cup {Ch(Digits, i) : i \in 1..Len(Digits)}

\* s.replace(/^\/+/, '') and s.replace(/\/+$/, '')
stripLeadingSlashes(s) == SubSeq(s, RunEnd(s, {"/"}, 1), Len(s))
stripTrailingSlashes(s) ==
    LET keep == {i \in 1..Len(s) : Ch(s, i) # "/"}
    IN  IF keep = {} THEN "" ELSE SubSeq(s, 1, MaxOf(keep))

\* s.split(/[^a-z0-9]+/g)
RECURSIVE splitNonAlnumFrom(_, _)
splitNonAlnumFrom(s, from) ==
    LET hits == {i \in from..Len(s) : Ch(s, i) \notin AlnumChars}
    IN  IF hits = {} THEN <<SubSeq(s, from, Len(s))>>
        ELSE <<SubSeq(s, from, MinOf(hits) - 1)>>
                \o splitNonAlnumFrom(s, FirstOf(s, AlnumChars, MinOf(hits)))

RECURSIVE keepTokens(_)
keepTokens(a) ==
    IF a = <<>> THEN <<>>
    ELSE IF Len(Head(a)) >= MinTokenLen /\ Head(a) \notin StopWords
    THEN <<Head(a)>> \o keepTokens(Tail(a))
    ELSE keepTokens(Tail(a))

tokenizeSlug(slug) ==
    LET cleaned == stripTrailingSlashes(stripLeadingSlashes(trim(slug)))
        segs == filterBoolean(split(cleaned, "/"))
        lastSeg == IF segs = <<>> THEN "" ELSE segs[Len(segs)]
        tokens == filterBoolean(mapTrim(
                      splitNonAlnumFrom(toLowerCase(lastSeg), 1)))
    IN  keepTokens(tokens)

(***************************************************************************)
(* Scoring, selection and candidate derivation.  A page is a record        *)
(* [link, images, mapIframe]; a match is the page's position in the pages  *)
(* array (the code holds a reference to the object), 0 for undefined.      *)
(***************************************************************************)
LangBonus == 3
TokenBonus == 2
MinScore == 2

scorePageForTokens(pageLink, tokens, preferLang) ==
    LET linkLower == toLowerCase(pageLink)
        hits == {k \in 1..Len(tokens) : includes(linkLower, tokens[k])}
    IN  (IF includes(linkLower, "/" \o preferLang \o "/") THEN LangBonus ELSE 0)
          + TokenBonus * Cardinality(hits)

\* the loop with >= for >: among the pages of the best score the last stays
RECURSIVE bestTokenLoopLast(_, _, _, _, _, _)
bestTokenLoopLast(pgs, tokens, preferLang, k, best, bestScore) ==
    IF k > Len(pgs) THEN [best |-> best, bestScore |-> bestScore]
    ELSE LET score == scorePageForTokens(pgs[k].link, tokens, preferLang)
         IN  IF score >= bestScore
             THEN bestTokenLoopLast(pgs, tokens, preferLang, k + 1, k, score)
             ELSE bestTokenLoopLast(pgs, tokens, preferLang, k + 1, best,
                                    bestScore)

\* the loop of bestTokenMatch over pages[k..]: best is a position, 0 for none
RECURSIVE bestTokenLoop(_, _, _, _, _, _)
bestTokenLoop(pgs, tokens, preferLang, k, best, bestScore) ==
    IF k > Len(pgs) THEN [best |-> best, bestScore |-> bestScore]
    ELSE LET score == scorePageForTokens(pgs[k].link, tokens, preferLang)
         IN  IF score > bestScore
             THEN bestTokenLoop(pgs, tokens, preferLang, k + 1, k, score)
             ELSE bestTokenLoop(pgs, tokens, preferLang, k + 1, best, bestScore)

bestTokenMatch(pgs, tokens, preferLang) ==
    IF tokens = <<>> THEN 0
    ELSE LET r == bestTokenLoop(pgs, tokens, preferLang, 1, 0, 0)
         IN  IF r.bestScore >= MinScore THEN r.best ELSE 0

\* stable insertion of position c into a list of positions sorted by link length
RECURSIVE insertByLength(_, _, _)
insertByLength(pgs, sorted, c) ==
    IF sorted = <<>> THEN <<c>>
    ELSE IF Len(pgs[c].link) - Len(pgs[Head(sorted)].link) < 0
    THEN <<c>> \o sorted
    ELSE <<Head(sorted)>> \o insertByLength(pgs, Tail(sorted), c)

\* pool.slice().sort((a, b) => a.link.length - b.link.length): a stable sort
RECURSIVE sortByLength(_, _)
sortByLength(pgs, pool) ==
    IF pool = <<>> THEN <<>>
    ELSE insertByLength(pgs, sortByLength(pgs, SubSeq(pool, 1, Len(pool) - 1)),
                        pool[Len(pool)])

RECURSIVE filterByLang(_, _, _)
filterByLang(pgs, candidates, preferLang) ==
    IF candidates = <<>> THEN <<>>
    ELSE IF includes(pgs[Head(candidates)].link, "/" \o preferLang \o "/")
    THEN <<Head(candidates)>> \o filterByLang(pgs, Tail(candidates), preferLang)
    ELSE filterByLang(pgs, Tail(candidates), preferLang)

\* the language filter forgotten: the shortest link of all candidates
preferShortest(pgs, candidates, preferLang) ==
    sortByLength(pgs, candidates)[1]

\* candidates is a non-empty list of page positions
preferBestMatch(pgs, candidates, preferLang) ==
    LET byLang == filterByLang(pgs, candidates, preferLang)
        pool == IF byLang # <<>> THEN byLang ELSE candidates
    IN  sortByLength(pgs, pool)[1]

\* new Set(list) spread to an array: first occurrences, in insertion order
RECURSIVE uniqInto(_, _)
uniqInto(out, a) ==
    IF a = <<>> THEN out
    ELSE IF \E k \in 1..Len(out) : out[k] = Head(a)
    THEN uniqInto(out, Tail(a))
    ELSE uniqInto(Append(out, Head(a)), Tail(a))

uniq(a) == uniqInto(<<>>, a)

LegacyNl == "/nl/golfreis/"
LegacyEn == "/en/golfreis/"
LegacyRoot == "/golfreis/"

rewrites(u) ==
    <<replace(u, LegacyNl, "/nl/"), replace(u, LegacyEn, "/en/"),
      replace(u, LegacyRoot, "/")>>

\* a loop over [full] alone: the no-query form is never rewritten
candidatesOfFullOnly(n) == uniq(<<n.full, n.noQuery>> \o rewrites(n.full))

\* lines 136-144 on the two forms
candidatesOf(n) ==
    uniq(<<n.full, n.noQuery>> \o rewrites(n.full) \o rewrites(n.noQuery))

deriveCandidatesFromOldUrl(oldUrl) == candidatesOf(normalizeForMatch(oldUrl))

(***************************************************************************)
(* Command line: getArgInt.  A number is held in tenths, so that the       *)
(* non-integer limits the parser accepts keep their value: Number("1.5")   *)
(* is Num(15).  Number() is modelled on optionally signed decimals with at *)
(* most one fraction digit; every other text here is NaN.                  *)
(***************************************************************************)
IsDigits(s) ==
    s # "" /\ \A i \in 1..Len(s) : includes(Digits, Ch(s, i))

RECURSIVE digitsValue(_)
digitsValue(s) ==
    IF s = "" THEN 0
    ELSE 10 * digitsValue(SubSeq(s, 1, Len(s) - 1))
           + (IndexOfFrom(Digits, Ch(s, Len(s)), 1) - 1)

NaN == [t |-> "NaN", s |-> "", n |-> 0, a |-> <<>>]

\* Number(v) of a non-empty string, in tenths
ToNumber(v) ==
    LET s == trim(v)
        neg == startsWith(s, "-")
        body == IF neg \/ startsWith(s, "+") THEN Tail(s) ELSE s
        dot == IndexOfFrom(body, ".", 1)
        whole == IF dot = 0 THEN body ELSE SubSeq(body, 1, dot - 1)
        frac == IF dot = 0 THEN "0" ELSE SubSeq(body, dot + 1, Len(body))
    IN  IF s = "" THEN Num(0)
        ELSE IF IsDigits(whole) /\ IsDigits(frac) /\ Len(frac) = 1
        THEN Num((IF neg THEN -1 ELSE 1)
                   * (10 * digitsValue(whole) + digitsValue(frac)))
        ELSE NaN

\* v is the text after the flag, undefined when the flag is absent
getArgInt(v) ==
    IF ~Truthy(v) THEN Undef
    ELSE LET num == ToNumber(v.s)
         IN  IF num.t = "number" THEN num ELSE Undef

\* ToIntegerOrInfinity of a number in tenths: truncation towards zero
ToInteger(x) == IF x >= 0 THEN x \div 10 ELSE -((-x) \div 10)

\* Math.max(0, x), in tenths
MathMax0(x) == IF x > 0 THEN x ELSE 0

\* the index Array.prototype.slice starts or ends at (0-based): a negative
\* argument counts from the end
RelIndex(len, k) ==
    IF k < 0 THEN (IF len + k > 0 THEN len + k ELSE 0)
    ELSE (IF k < len THEN k ELSE len)

\* a.slice(start, end) with 0-based integer arguments
slice(a, start, end) ==
    SubSeq(a, RelIndex(Len(a), start) + 1, RelIndex(Len(a), end))

(***************************************************************************)
(* main: the steps on one product                                          *)
(***************************************************************************)
\* Map.prototype.set
mapSet(m, key, val) ==
    [x \in DOMAIN m \cup {key} |-> IF x = key THEN val ELSE m[x]]

EmptyMap == [x \in {} |-> 0]

\* an object with one field added or overwritten
setField(obj, f, val) ==
    [x \in DOMAIN obj \cup {f} |-> IF x = f THEN val ELSE obj[x]]

RECURSIVE filterStrings(_)
filterStrings(a) ==
    IF a = <<>> THEN <<>>
    ELSE IF IsStr(Head(a)) THEN <<Head(a)>> \o filterStrings(Tail(a))
    ELSE filterStrings(Tail(a))

\* the test of images forgotten in the filter
RECURSIVE buildPagesAnyImages(_)
buildPagesAnyImages(raw) ==
    IF raw = <<>> THEN <<>>
    ELSE IF IsStr(Field(Head(raw), "link"))
    THEN <<[link |-> normalizeUrlish(Head(raw).link.s),
            images |-> IF IsArr(Field(Head(raw), "images"))
                       THEN filterStrings(Head(raw).images.a) ELSE <<>>,
            mapIframe |-> IF IsStr(Field(Head(raw), "mapIframe"))
                          THEN Head(raw).mapIframe ELSE Undef]>>
           \o buildPagesAnyImages(Tail(raw))
    ELSE buildPagesAnyImages(Tail(raw))

\* lines 167-174: keep the elements with a string link and an array images
RECURSIVE buildPages(_)
buildPages(raw) ==
    IF raw = <<>> THEN <<>>
    ELSE LET p == Head(raw)
         IN  IF IsStr(Field(p, "link")) /\ IsArr(Field(p, "images"))
             THEN <<[link |-> normalizeUrlish(p.link.s),
                     images |-> filterStrings(p.images.a),
                     mapIframe |-> IF IsStr(Field(p, "mapIframe"))
                                   THEN p.mapIframe ELSE Undef]>>
                    \o buildPages(Tail(raw))
             ELSE buildPages(Tail(raw))

\* lines 176-181: a later page overwrites an earlier one under the same key
\* lines 179-180
setBoth(m, n, k) == mapSet(mapSet(m, n.full, k), n.noQuery, k)

RECURSIVE indexLoop(_, _, _)
indexLoop(pgs, k, m) ==
    IF k > Len(pgs) THEN m
    ELSE indexLoop(pgs, k + 1, setBoth(m, normalizeForMatch(pgs[k].link), k))

indexPages(pgs) == indexLoop(pgs, 1, EmptyMap)

\* lines 199-205: the first candidate that is a key of the index
RECURSIVE firstHit(_, _)
firstHit(index, cands) ==
    IF cands = <<>> THEN 0
    ELSE IF Head(cands) \in DOMAIN index THEN index[Head(cands)]
    ELSE firstHit(index, Tail(cands))

\* lines 198-207
RECURSIVE tier1(_, _)
tier1(index, urls) ==
    IF urls = <<>> THEN 0
    ELSE IF firstHit(index, deriveCandidatesFromOldUrl(Head(urls))) # 0
    THEN firstHit(index, deriveCandidatesFromOldUrl(Head(urls)))
    ELSE tier1(index, Tail(urls))

\* line 211: oldUrls.map(pathTail).filter(Boolean)
RECURSIVE tailsOf(_)
tailsOf(urls) ==
    IF urls = <<>> THEN <<>>
    ELSE LET tl == pathTail(Head(urls))
         IN  IF Truthy(tl) THEN <<tl.s>> \o tailsOf(Tail(urls))
             ELSE tailsOf(Tail(urls))

\* lines 215-217: the positions of the pages that hold the tail, from k on
RECURSIVE tailCandidates(_, _, _)
tailCandidates(pgs, tl, k) ==
    IF k > Len(pgs) THEN <<>>
    ELSE IF \/ includes(pgs[k].link, "/" \o tl \o "/")
            \/ endsWith(pgs[k].link, "/" \o tl)
    THEN <<k>> \o tailCandidates(pgs, tl, k + 1)
    ELSE tailCandidates(pgs, tl, k + 1)

\* the candidates of every tail, one tail after the other
RECURSIVE allTailHits(_, _)
allTailHits(pgs, tails) ==
    IF tails = <<>> THEN <<>>
    ELSE tailCandidates(pgs, Head(tails), 1) \o allTailHits(pgs, Tail(tails))

\* lines 214-219: the candidates of the first tail that has any
RECURSIVE firstTailHits(_, _)
firstTailHits(pgs, tails) ==
    IF tails = <<>> THEN <<>>
    ELSE LET c == tailCandidates(pgs, Head(tails), 1)
         IN  IF c # <<>> THEN c ELSE firstTailHits(pgs, Tail(tails))

tier2Candidates(pgs, urls) == firstTailHits(pgs, uniq(tailsOf(urls)))

\* lines 220-222
pickCandidate(pgs, candidates) ==
    IF candidates # <<>> THEN preferBestMatch(pgs, candidates, "nl") ELSE 0

\* lines 210-223: the value of pageMatch after the block
tier2(pm, pgs, urls) ==
    IF pm # 0 THEN pm ELSE pickCandidate(pgs, tier2Candidates(pgs, urls))

\* line 228: bestTokenMatch(nl) ?? bestTokenMatch(en)
tokenMatch(pgs, tokens) ==
    LET nl == bestTokenMatch(pgs, tokens, "nl")
    IN  IF nl # 0 THEN nl ELSE bestTokenMatch(pgs, tokens, "en")

\* the !pageMatch test forgotten: a token match replaces an earlier match
tier3Unguarded(pm, pgs, slugText) ==
    IF slugText # "" /\ tokenMatch(pgs, tokenizeSlug(slugText)) # 0
    THEN tokenMatch(pgs, tokenizeSlug(slugText))
    ELSE pm

\* lines 226-229: the value of pageMatch after the block
tier3(pm, pgs, slugText) ==
    IF pm = 0 /\ slugText # "" THEN tokenMatch(pgs, tokenizeSlug(slugText))
    ELSE pm

\* images assigned with ??=: an images value of the input record survives
enrichKeepImages(product, pgs, pm) ==
    IF "images" \in DOMAIN product THEN product
    ELSE IF pm # 0 THEN setField(product, "images", Arr(pgs[pm].images))
    ELSE setField(product, "images", Arr(<<>>))

\* the images of the page copied only inside the mapIframe test
enrichImagesWithMap(product, pgs, pm) ==
    IF pm # 0 /\ Truthy(pgs[pm].mapIframe)
    THEN setField(setField(product, "images", Arr(pgs[pm].images)),
                  "mapIframe", pgs[pm].mapIframe)
    ELSE setField(product, "images", Arr(<<>>))

\* lines 231-242: the output record
enrich(product, pgs, pm) ==
    IF pm # 0
    THEN LET withImages == setField(product, "images", Arr(pgs[pm].images))
         IN  IF Truthy(pgs[pm].mapIframe)
             THEN setField(withImages, "mapIframe", pgs[pm].mapIframe)
             ELSE withImages
    ELSE setField(product, "images", Arr(<<>>))

\* the line break after the message forgotten
diagnosticNoBreak(raw) == "No media match for old_urls: " \o raw

\* line 240
diagnostic(raw) == "No media match for old_urls: " \o raw \o "\n"

\* line 185
sliceToProcess(products, lim) ==
    IF lim.t = "number"
    THEN slice(products, 0, ToInteger(MathMax0(lim.n)))
    ELSE products

\* the rest taken from one place too far
sliceRestOffByOne(products, lim) ==
    IF lim.t = "number" /\ lim.n < 10 * Len(products)
    THEN slice(products, ToInteger(lim.n) + 1, Len(products))
    ELSE <<>>

\* lines 248-250: what is pushed after the loop
sliceRest(products, lim) ==
    IF lim.t = "number" /\ lim.n < 10 * Len(products)
    THEN slice(products, ToInteger(lim.n), Len(products))
    ELSE <<>>

(***************************************************************************)
(* Inputs of a run: the products file, the pages file and the text after   *)
(* --limit, drawn from small pools.                                        *)
(***************************************************************************)
MaxProducts == 2

\* a product whose legacy URL has the new layout's /golfreizen/ segment
ProductFoo ==
    [slug |-> Str("/golfreizen/nl/foo-tour"),
     old_urls |-> Str("https://x.test/nl/golfreizen/foo-tour")]

\* two legacy URLs on two lines, the second with query and fragment; the
\* record already carries images and a passthrough field
ProductCornwall ==
    [slug |-> Str("/golfreizen/engeland/Cornwall-Golf"),
     old_urls |-> Str("https://x.test/en/golfreis/bar\nhttps://X.test/nl/golfreis/foo-tour?x=1#top"),
     images |-> Arr(<<Str("https://x.test/old.jpg")>>),
     title |-> Str("Cornwall")]

\* no legacy URL, its own mapIframe, a slug token that no pool page holds
ProductZzz ==
    [slug |-> Str("/golfreizen/schotland/zzz-links/"),
     mapIframe |-> Str("<iframe src='old'></iframe>"),
     id |-> Num(7)]

\* a slug of stop words only and a legacy URL that no pool page answers
ProductOud ==
    [slug |-> Str("/golfreizen/the-tour"),
     old_urls |-> Str(" http://g.nl/golfreis/oud ")]

ProductPool == {ProductFoo, ProductCornwall, ProductZzz, ProductOud}

PageFoo ==
    [link |-> Str("https://x.test/nl/foo-tour"),
     images |-> Arr(<<Str("https://x.test/a.jpg")>>)]

PageCornwall ==
    [link |-> Str("https://x.test/nl/cornwall-golf/?v=2#map"),
     images |-> Arr(<<Str("https://x.test/b.jpg"), Num(1),
                      Str("https://x.test/c.jpg")>>),
     mapIframe |-> Str("<iframe src='maps'></iframe>")]

\* link lengths 20 and 30, neither under /nl/
PageShort ==
    [link |-> Str("http://g.nl/foo-tour"),
     images |-> Arr(<<>>),
     mapIframe |-> Num(0)]

PageLong ==
    [link |-> Str("http://g.nl/en/tours2/foo-tour"),
     images |-> Arr(<<Str("https://x.test/d.jpg")>>),
     mapIframe |-> Str("")]

\* holds the tail of the first legacy URL of ProductCornwall
PageBar ==
    [link |-> Str("http://g.nl/en/bar/"),
     images |-> Arr(<<Str("https://x.test/g.jpg")>>)]

\* dropped before matching: images is not an array
PageBroken ==
    [link |-> Str("https://x.test/nl/foo-tour"),
     images |-> Str("https://x.test/e.jpg")]

\* dropped before matching: no link
PageNoLink ==
    [images |-> Arr(<<Str("https://x.test/f.jpg")>>),
     mapIframe |-> Str("<iframe src='lost'></iframe>")]

\* the pages files of the runs
PageFiles ==
    {<<>>,
     <<PageFoo>>,
     <<PageCornwall>>,
     <<PageBroken>>,
     <<PageLong>>,
     <<PageShort, PageLong>>,
     <<PageLong, PageShort>>,
     <<PageShort, PageFoo>>,
     <<PageFoo, PageCornwall>>,
     <<PageCornwall, PageBroken, PageNoLink, PageFoo>>,
     <<PageLong, PageCornwall, PageShort>>,
     <<PageShort, PageBar>>}

\* the text after --limit; undefined when the flag is absent
LimitArgs == {Undef, Str("0"), Str("1"), Str("2"), Str("-1"), Str("x")}

SeqsUpTo(S, n) == UNION {[1..k -> S] : k \in 0..n}

\* what a path names: a file holding a JSON array, no file, a file that is
\* not JSON, a file holding a JSON value that is no array
FileKinds == {"array", "missing", "invalid", "object"}

\* lines 149-150: the defaults of --productsIn and --pagesIn
ProductsIn == "product-data.json"
PagesIn == "wp-data/pages.images.json"

\* process.cwd()
Cwd == "/work"

\* path.resolve(process.cwd(), p) for a relative p
resolve(dir, p) == dir \o "/" \o p

\* the message of the error readFile rejects with for a missing file
NoEntry(absPath) ==
    "ENOENT: no such file or directory, open '" \o absPath \o "'"

\* the message of the SyntaxError JSON.parse throws: it tells the place in
\* the text, JSON.parse is not given the path
NotJson == "Unexpected token in JSON at position 0"

\* lines 158-165: the message of the first error thrown, "" when none is:
\* both files are read, then both are parsed, then both are tested
readError(productsKind, pagesKind) ==
    IF productsKind = "missing" THEN NoEntry(resolve(Cwd, ProductsIn))
    ELSE IF pagesKind = "missing" THEN NoEntry(resolve(Cwd, PagesIn))
    ELSE IF productsKind = "invalid" THEN NotJson
    ELSE IF pagesKind = "invalid" THEN NotJson
    ELSE IF productsKind # "array" THEN "Expected array in " \o ProductsIn
    ELSE IF pagesKind # "array" THEN "Expected array in " \o PagesIn
    ELSE ""

(***************************************************************************)
(* The run of main as a state machine                                      *)
(***************************************************************************)
VARIABLES
    productsFile,   \* what --productsIn names: see FileKinds
    pagesFile,      \* what --pagesIn names
    productsJson,   \* the parsed products file when it holds an array
    pagesJson,      \* the parsed pages file when it holds an array
    limitArg,       \* the text after --limit
    pc,             \* the position in main
    limit,          \* getArgInt(args, '--limit')
    pages,          \* the kept pages
    byExact,        \* index: normalized URL -> position in pages
    toProcess,      \* the products run through the matcher
    i,              \* position in toProcess of the current product
    oldUrlsRaw,     \* locals of the loop body
    oldUrls,
    slug,
    pageMatch,      \* position in pages of the match, 0 for undefined
    enriched,       \* the output array
    matched,
    unmatched,
    stderr,         \* the text written to the error stream
    stdout,         \* the summaries written: [total, matched, unmatched]
    written,        \* the arrays written to the output file
    error           \* the message of the error main has thrown, "" for none

\* a single call of one of the helper functions
VARIABLES
    callee,         \* the function called, "" before the call
    argument,       \* the string it is called with
    returned        \* what it returned

call == <<callee, argument, returned>>

\* no helper is called on its own
NoCall == callee = "" /\ argument = "" /\ returned = <<>>

\* a run of backupMedia against a WordPress site
VARIABLES
    pagesArg,           \* the text after --pages, undefined when absent
    perPageArg,         \* the text after --perPage
    totalPagesHeader,   \* the x-wp-totalpages header of the site's responses
    library,            \* the number of media items of the site
    beyond,             \* the site's answer to a page after the last
    bpc,                \* the position in backupMedia
    perPage,
    totalPages,
    page,
    items,              \* items.length of the page just fetched
    requested,          \* the page numbers requested, in order
    handled             \* the number of items the inner loop has gone through

backupInputs == <<pagesArg, perPageArg, totalPagesHeader, library, beyond>>

backup == <<backupInputs, bpc, perPage, totalPages, page, items, requested,
            handled>>

\* backupMedia is not running
NoBackup ==
    /\ pagesArg = Undef
    /\ perPageArg = Undef
    /\ totalPagesHeader = Undef
    /\ library = 0
    /\ beyond = "error"
    /\ bpc = "off"
    /\ perPage = Undef
    /\ totalPages = Undef
    /\ page = 1
    /\ items = 0
    /\ requested = <<>>
    /\ handled = 0

\* a run of scrape-images
VARIABLES
    scrapeData,     \* the elements of the --in file
    scrapeLimitArg, \* the text after --limit, undefined when absent
    delayArg,       \* the text after --delayMs, undefined when absent
    spc,            \* the position in main of scrape-images
    delayMs,        \* a number in tenths
    toScrape,       \* toProcess of scrape-images: the selected pages
    at,             \* i of the loop (0-based)
    results,        \* the rows pushed so far
    timeline,       \* requests begun and ended and sleeps, in order
    progress,       \* the progress lines written to stdout
    rowsFile        \* what was written to --out

scrapeInputs == <<scrapeData, scrapeLimitArg, delayArg>>

scrape == <<scrapeInputs, spc, delayMs, toScrape, at, results, timeline,
            progress, rowsFile>>

\* scrape-images is not running
NoScrape ==
    /\ scrapeData = <<>>
    /\ scrapeLimitArg = Undef
    /\ delayArg = Undef
    /\ spc = "off"
    /\ delayMs = Undef
    /\ toScrape = <<>>
    /\ at = 0
    /\ results = <<>>
    /\ timeline = <<>>
    /\ progress = <<>>
    /\ rowsFile = <<>>

\* a run of seo-rename-product-media
VARIABLES
    tree,               \* the files under the input root when the run starts
    outRootArg,         \* the text after --outRoot, undefined when absent
    limitProductsArg,   \* the text after --limitProducts
    disk,               \* path -> content of every file the run can see
    rpc,                \* the position in main of seo-rename-product-media
    selected,           \* the product folders the run goes through
    productAt,          \* position in selected of the current product
    sortedFiles,        \* sorted: the current product's files
    fileAt,             \* position in sortedFiles of the current file
    idx,
    usedNames,
    mapping,
    reports             \* the mapping as written to the report file

renameInputs == <<tree, outRootArg, limitProductsArg>>

rename == <<renameInputs, disk, rpc, selected, productAt, sortedFiles,
            fileAt, idx, usedNames, mapping, reports>>

\* seo-rename-product-media is not running
NoRename ==
    /\ tree = {}
    /\ outRootArg = Undef
    /\ limitProductsArg = Undef
    /\ disk = <<>>
    /\ rpc = "off"
    /\ selected = <<>>
    /\ productAt = 1
    /\ sortedFiles = <<>>
    /\ fileAt = 1
    /\ idx = 1
    /\ usedNames = {}
    /\ mapping = <<>>
    /\ reports = <<>>

\* the matching of one product against the pages, probe by probe
VARIABLES
    mPagesJson,     \* the parsed pages file
    mProduct,       \* the product record
    mpc,            \* the position in the loop body, "off" when not running
    mPages,         \* the pages kept for matching
    mByExact,       \* the index
    mOldUrlsRaw,    \* the product's old_urls text
    mOldUrls,       \* the legacy URLs split from it
    mSlug,          \* the product's slug
    urlAt,          \* the position of oldUrl in mOldUrls
    candAt,         \* the position of cand in the candidates of oldUrl
    probed,         \* the keys handed to byExact.get so far
    mPageMatch,     \* the position in mPages of pageMatch, 0 for undefined
    mTokens,        \* the surviving tokens of the slug
    passes          \* the calls of bestTokenMatch so far and their results

cascadeInputs == <<mPagesJson, mProduct>>

cascade == <<cascadeInputs, mpc, mPages, mByExact, mOldUrlsRaw, mOldUrls,
             mSlug, urlAt, candAt, probed, mPageMatch, mTokens, passes>>

\* no product is being matched on its own
NoCascade ==
    /\ mPagesJson = <<>>
    /\ mProduct = [slug |-> Str("")]
    /\ mpc = "off"
    /\ mPages = <<>>
    /\ mByExact = [x \in {} |-> 0]
    /\ mOldUrlsRaw = ""
    /\ mOldUrls = <<>>
    /\ mSlug = ""
    /\ urlAt = 1
    /\ candAt = 1
    /\ probed = <<>>
    /\ mPageMatch = 0
    /\ mTokens = <<>>
    /\ passes = <<>>

merge ==<<productsFile, pagesFile, productsJson, pagesJson, limitArg, pc,
           limit, pages, byExact, toProcess, i, oldUrlsRaw, oldUrls, slug,
           pageMatch, enriched, matched, unmatched, stderr, stdout, written,
           error>>

\* the state outside the run of main
others == <<call, backup, scrape, rename, cascade>>

\* the state outside the single calls
besideCall == <<merge, backup, scrape, rename, cascade>>

\* the state outside the run of backupMedia
besideBackup == <<merge, call, scrape, rename, cascade>>

\* the state outside the run of scrape-images
besideScrape == <<merge, call, backup, rename, cascade>>

\* the state outside the run of seo-rename-product-media
besideRename == <<merge, call, backup, scrape, cascade>>

\* the state outside the matching of one product
besideCascade == <<merge, call, backup, scrape, rename>>


vars == <<merge, others>>

inputs == <<productsFile, pagesFile, productsJson, pagesJson, limitArg>>
locals == <<oldUrlsRaw, oldUrls, slug, pageMatch>>
outputs == <<enriched, matched, unmatched, stderr, stdout, written, error>>

Init ==
    /\ productsFile \in FileKinds
    /\ pagesFile \in FileKinds
    /\ productsJson \in IF productsFile = "array"
                        THEN SeqsUpTo(ProductPool, MaxProducts) ELSE {<<>>}
    /\ pagesJson \in IF pagesFile = "array" THEN PageFiles ELSE {<<>>}
    /\ limitArg \in LimitArgs
    /\ pc = "args"
    /\ limit = Undef
    /\ pages = <<>>
    /\ byExact = EmptyMap
    /\ toProcess = <<>>
    /\ i = 1
    /\ oldUrlsRaw = ""
    /\ oldUrls = <<>>
    /\ slug = ""
    /\ pageMatch = 0
    /\ enriched = <<>>
    /\ matched = 0
    /\ unmatched = 0
    /\ stderr = ""
    /\ stdout = <<>>
    /\ written = <<>>
    /\ error = ""
    /\ NoCall
    /\ NoBackup
    /\ NoScrape
    /\ NoRename
    /\ NoCascade

\* lines 148-165: the arguments are read, both files hold arrays
ReadInputs ==
    /\ pc = "args"
    /\ readError(productsFile, pagesFile) = ""
    /\ limit' = getArgInt(limitArg)
    /\ pc' = "pages"
    /\ UNCHANGED others
    /\ UNCHANGED <<inputs, pages, byExact, toProcess, i, locals, outputs>>

\* lines 148-165: readFile, JSON.parse or an array test throws; the
\* rejection of main ends the process
FailInput ==
    /\ pc = "args"
    /\ readError(productsFile, pagesFile) # ""
    /\ limit' = getArgInt(limitArg)
    /\ error' = readError(productsFile, pagesFile)
    /\ pc' = "failed"
    /\ UNCHANGED others
    /\ UNCHANGED <<inputs, pages, byExact, toProcess, i, locals, enriched,
                   matched, unmatched, stderr, stdout, written>>

\* lines 167-181
BuildIndex ==
    /\ pc = "pages"
    /\ pages' = buildPages(pagesJson)
    /\ byExact' = indexPages(pages')
    /\ pc' = "slice"
    /\ UNCHANGED others
    /\ UNCHANGED <<inputs, limit, toProcess, i, locals, outputs>>

\* lines 183-188
StartLoop ==
    /\ pc = "slice"
    /\ enriched' = <<>>
    /\ toProcess' = sliceToProcess(productsJson, limit)
    /\ matched' = 0
    /\ unmatched' = 0
    /\ i' = 1
    /\ pc' = "loop"
    /\ UNCHANGED error
    /\ UNCHANGED others
    /\ UNCHANGED <<inputs, limit, pages, byExact, locals, stderr, stdout,
                   written>>

\* lines 190-195
BeginProduct ==
    /\ pc = "loop"
    /\ i <= Len(toProcess)
    /\ LET product == toProcess[i]
       IN  /\ oldUrlsRaw' = IF IsStr(Field(product, "old_urls"))
                            THEN product.old_urls.s ELSE ""
           /\ oldUrls' = IF oldUrlsRaw' # "" THEN splitOldUrls(oldUrlsRaw')
                         ELSE <<>>
           /\ slug' = IF IsStr(Field(product, "slug")) THEN product.slug.s
                      ELSE ""
    /\ pageMatch' = 0
    /\ pc' = "tier1"
    /\ UNCHANGED others
    /\ UNCHANGED <<inputs, limit, pages, byExact, toProcess, i, outputs>>

\* lines 197-207
MatchExact ==
    /\ pc = "tier1"
    /\ pageMatch' = tier1(byExact, oldUrls)
    /\ pc' = "tier2"
    /\ UNCHANGED others
    /\ UNCHANGED <<inputs, limit, pages, byExact, toProcess, i, oldUrlsRaw,
                   oldUrls, slug, outputs>>

\* lines 209-223
MatchTail ==
    /\ pc = "tier2"
    /\ pageMatch' = tier2(pageMatch, pages, oldUrls)
    /\ pc' = "tier3"
    /\ UNCHANGED others
    /\ UNCHANGED <<inputs, limit, pages, byExact, toProcess, i, oldUrlsRaw,
                   oldUrls, slug, outputs>>

\* lines 225-229
MatchTokens ==
    /\ pc = "tier3"
    /\ pageMatch' = tier3(pageMatch, pages, slug)
    /\ pc' = "enrich"
    /\ UNCHANGED others
    /\ UNCHANGED <<inputs, limit, pages, byExact, toProcess, i, oldUrlsRaw,
                   oldUrls, slug, outputs>>

\* a product without a match treated as an error that ends the run
EnrichOrThrow ==
    /\ pc = "enrich"
    /\ enriched' = IF pageMatch # 0
                   THEN Append(enriched, enrich(toProcess[i], pages, pageMatch))
                   ELSE enriched
    /\ matched' = IF pageMatch # 0 THEN matched + 1 ELSE matched
    /\ error' = IF pageMatch # 0 THEN error ELSE "No media match"
    /\ i' = i + 1
    /\ pc' = IF pageMatch # 0 THEN "loop" ELSE "failed"
    /\ UNCHANGED others
    /\ UNCHANGED <<inputs, limit, pages, byExact, toProcess, locals,
                   unmatched, stderr, stdout, written>>

\* the unmatched counter forgotten
EnrichUncounted ==
    /\ pc = "enrich"
    /\ enriched' = Append(enriched, enrich(toProcess[i], pages, pageMatch))
    /\ matched' = IF pageMatch # 0 THEN matched + 1 ELSE matched
    /\ stderr' = IF pageMatch = 0 /\ oldUrlsRaw # ""
                 THEN stderr \o diagnostic(oldUrlsRaw) ELSE stderr
    /\ i' = i + 1
    /\ pc' = "loop"
    /\ UNCHANGED error
    /\ UNCHANGED others
    /\ UNCHANGED <<inputs, limit, pages, byExact, toProcess, locals, stdout,
                   written, unmatched>>

\* lines 231-244
Enrich ==
    /\ pc = "enrich"
    /\ enriched' = Append(enriched, enrich(toProcess[i], pages, pageMatch))
    /\ matched' = IF pageMatch # 0 THEN matched + 1 ELSE matched
    /\ unmatched' = IF pageMatch # 0 THEN unmatched ELSE unmatched + 1
    /\ stderr' = IF pageMatch = 0 /\ oldUrlsRaw # ""
                 THEN stderr \o diagnostic(oldUrlsRaw) ELSE stderr
    /\ i' = i + 1
    /\ pc' = "loop"
    /\ UNCHANGED error
    /\ UNCHANGED others
    /\ UNCHANGED <<inputs, limit, pages, byExact, toProcess, locals, stdout,
                   written>>

\* lines 247-250, reached when the loop has run out
AppendRest ==
    /\ pc = "loop"
    /\ i > Len(toProcess)
    /\ enriched' = enriched \o sliceRest(productsJson, limit)
    /\ pc' = "write"
    /\ UNCHANGED error
    /\ UNCHANGED others
    /\ UNCHANGED <<inputs, limit, pages, byExact, toProcess, i, locals,
                   matched, unmatched, stderr, stdout, written>>

\* lines 252-253
WriteOutput ==
    /\ pc = "write"
    /\ written' = Append(written, enriched)
    /\ stdout' = Append(stdout, [total |-> Len(enriched), matched |-> matched,
                                 unmatched |-> unmatched])
    /\ pc' = "done"
    /\ UNCHANGED error
    /\ UNCHANGED others
    /\ UNCHANGED <<inputs, limit, pages, byExact, toProcess, i, locals,
                   enriched, matched, unmatched, stderr>>

Next ==
    \/ ReadInputs
    \/ FailInput
    \/ BuildIndex
    \/ StartLoop
    \/ BeginProduct
    \/ MatchExact
    \/ MatchTail
    \/ MatchTokens
    \/ Enrich
    \/ AppendRest
    \/ WriteOutput

Spec == Init /\ [][Next]_vars

\* the positions in main; "done" after the last statement, "failed" after
\* a throw
Positions == {"args", "pages", "slice", "loop", "tier1", "tier2", "tier3",
              "enrich", "write", "done", "failed"}

\* main has statements left to run
Running == pc \notin {"done", "failed"}

\* main moves on to another position
Advance == Running /\ pc' \in Positions /\ pc' # pc

\* main is one sequence of statements that node runs to its end: while
\* main has statements left, it moves on
FairSpec == Spec /\ WF_pc(Advance)

(***************************************************************************)
(* Single calls of the helper functions, on strings drawn from small sets  *)
(***************************************************************************)
\* main is not running
NoRun ==
    /\ productsFile = "array"
    /\ pagesFile = "array"
    /\ productsJson = <<>>
    /\ pagesJson = <<>>
    /\ limitArg = Undef
    /\ pc = "off"
    /\ limit = Undef
    /\ pages = <<>>
    /\ byExact = EmptyMap
    /\ toProcess = <<>>
    /\ i = 1
    /\ oldUrlsRaw = ""
    /\ oldUrls = <<>>
    /\ slug = ""
    /\ pageMatch = 0
    /\ enriched = <<>>
    /\ matched = 0
    /\ unmatched = 0
    /\ stderr = ""
    /\ stdout = <<>>
    /\ written = <<>>
    /\ error = ""

\* the strings of at most n characters of the set
RECURSIVE StringsUpTo(_, _)
StringsUpTo(chars, n) ==
    IF n = 0 THEN {""}
    ELSE {""} \cup {c \o s : c \in chars, s \in StringsUpTo(chars, n - 1)}

MaxSplitLen == 4

\* old_urls texts: every short text of a letter, the blank, the tab and the
\* three separators, and some longer lists
SplitInputs ==
    StringsUpTo({"a", " ", ",", ";", "\n"}, MaxSplitLen)
      \cup {"a.com\nb.com; c.com,,  d.com",
            "a b",
            "a\tb",
            "a \tb",
            " a/b c , d\r\n\r\ne;",
            "https://x.test/en/golfreis/bar\nhttps://X.test/nl/golfreis/foo-tour?x=1#top"}

SplitInit ==
    /\ NoRun
    /\ NoBackup
    /\ NoScrape
    /\ NoRename
    /\ NoCascade
    /\ callee = ""
    /\ argument \in SplitInputs
    /\ returned = <<>>

\* line 192: splitOldUrls(oldUrlsRaw)
CallSplitOldUrls ==
    /\ callee = ""
    /\ callee' = "splitOldUrls"
    /\ returned' = splitOldUrls(argument)
    /\ UNCHANGED <<argument, besideCall>>

SplitNext == CallSplitOldUrls

SplitSpec == SplitInit /\ [][SplitNext]_vars

\* URL texts as they stand in the scraped data: white space around them,
\* upper case in scheme and host, blanks and escaped slashes in the path,
\* a query and a fragment
UrlInputs ==
    {lead \o scheme \o host \o path \o query \o fragment \o trail :
        lead \in {"", " "},
        scheme \in {"http://", "HTTPS://"},
        host \in {"x.test", "X.Test"},
        path \in {"", "/", "/a b/", "/nl\\/foo", "/a\\b"},
        query \in {"", "?", "?q=1", "?r=\\\\/b"},
        fragment \in {"", "#", "#top"},
        trail \in {"", "\n"}}

\* texts that new URL rejects
NonUrlInputs ==
    {"", " ", "foo", " foo bar\t", "x.test/nl/foo", "/nl/golfreis/x?y=1#z",
     "a\\/b", " \\/nl\\/foo?q ", "a\\\\/b", "http//x.test/a", "//x.test/a#b",
     "http://", "https://#a", "http://x y/a"}

NormalizeInputs == UrlInputs \cup NonUrlInputs

NormalizeInit ==
    /\ NoRun
    /\ NoBackup
    /\ NoScrape
    /\ NoRename
    /\ NoCascade
    /\ callee = ""
    /\ argument \in NormalizeInputs
    /\ returned = <<>>

\* line 171: normalizeUrlish(p.link)
CallNormalizeUrlish ==
    /\ callee = ""
    /\ callee' = "normalizeUrlish"
    /\ returned' = normalizeUrlish(argument)
    /\ UNCHANGED <<argument, besideCall>>

\* lines 135 and 178: normalizeForMatch(oldUrl), normalizeForMatch(p.link)
CallNormalizeForMatch ==
    /\ callee = ""
    /\ callee' = "normalizeForMatch"
    /\ returned' = normalizeForMatch(argument)
    /\ UNCHANGED <<argument, besideCall>>

NormalizeNext ==
    \/ CallNormalizeUrlish
    \/ CallNormalizeForMatch

NormalizeSpec == NormalizeInit /\ [][NormalizeNext]_vars

(***************************************************************************)
(* backup-media: the pagination loop of backupMedia                        *)
(***************************************************************************)
DefaultPerPage == 100

MaxLibrary == 4

\* the site: the number of items on page p when a page holds per of the n
\* items of the library
itemsOnPage(n, per, p) ==
    IF n - (p - 1) * per <= 0 THEN 0
    ELSE IF n - (p - 1) * per < per THEN n - (p - 1) * per
    ELSE per

\* the site answers the request with a 2xx status and an array: WordPress
\* takes per_page from 1 to 100; page 1 always exists; a page after the
\* last is an error on WordPress, an empty array on a lenient site
siteOk(n, per, p, past) ==
    /\ per >= 1 /\ per <= 100
    /\ p = 1 \/ itemsOnPage(n, per, p) > 0 \/ past = "empty"

\* lines 270-271: the header as a number, undefined when there is none
discoveredTotal(header) ==
    IF Truthy(header) THEN ToNumber(header.s) ELSE Undef

\* every header adopted, also after --pages has set totalPages
adoptAlways(total, discovered) ==
    IF Truthy(discovered) /\ discovered.t = "number" THEN discovered
    ELSE total

\* lines 291-293: totalPages after the response
adoptTotal(total, discovered) ==
    IF ~Truthy(total) /\ Truthy(discovered) /\ discovered.t = "number"
    THEN discovered
    ELSE total

\* lines 312-316: the loop is left after this page (numbers in tenths)
breaks(total, per, pageNo, count) ==
    \/ Truthy(total) /\ 10 * pageNo >= total.n
    \/ ~Truthy(total) /\ 10 * count < per.n

BackupInit ==
    /\ NoRun
    /\ NoCall
    /\ NoScrape
    /\ NoRename
    /\ NoCascade
    /\ pagesArg \in {Undef, Str("0"), Str("1"), Str("2"), Str("3"), Str("-1")}
    /\ perPageArg \in {Undef, Str("0"), Str("1"), Str("2")}
    /\ totalPagesHeader \in {Undef, Str("0"), Str("1"), Str("2"), Str("3"),
                             Str("x")}
    /\ library \in 0..MaxLibrary
    /\ beyond \in {"error", "empty"}
    /\ bpc = "args"
    /\ perPage = Undef
    /\ totalPages = Undef
    /\ page = 1
    /\ items = 0
    /\ requested = <<>>
    /\ handled = 0

\* lines 280-289
BackupArgs ==
    /\ bpc = "args"
    /\ perPage' = IF getArgInt(perPageArg) = Undef THEN Num(10 * DefaultPerPage)
                  ELSE getArgInt(perPageArg)
    /\ totalPages' = getArgInt(pagesArg)
    /\ page' = 1
    /\ bpc' = "fetch"
    /\ UNCHANGED <<backupInputs, items, requested, handled, besideBackup>>

\* lines 290-293: the page is requested and the site answers with an array
FetchMediaPage ==
    /\ bpc = "fetch"
    /\ siteOk(library, perPage.n \div 10, page, beyond)
    /\ requested' = Append(requested, page)
    /\ items' = itemsOnPage(library, perPage.n \div 10, page)
    /\ totalPages' = adoptTotal(totalPages, discoveredTotal(totalPagesHeader))
    /\ bpc' = "items"
    /\ UNCHANGED <<backupInputs, perPage, page, handled, besideBackup>>

\* lines 259-274: fetch rejects, the status is not 2xx or the body is no
\* array; the error ends backupMedia
FetchFails ==
    /\ bpc = "fetch"
    /\ requested' = Append(requested, page)
    /\ bpc' = "failed"
    /\ UNCHANGED <<backupInputs, perPage, totalPages, page, items, handled,
                   besideBackup>>

\* lines 295-310: every item is skipped or downloaded
HandleItems ==
    /\ bpc = "items"
    /\ handled' = handled + items
    /\ bpc' = "check"
    /\ UNCHANGED <<backupInputs, perPage, totalPages, page, items, requested,
                   besideBackup>>

\* lines 308 and 242-248: a download throws; the error ends backupMedia
DownloadFails ==
    /\ bpc = "items"
    /\ items > 0
    /\ handled' \in handled..(handled + items - 1)
    /\ bpc' = "failed"
    /\ UNCHANGED <<backupInputs, perPage, totalPages, page, items, requested,
                   besideBackup>>

\* lines 312-316: break
LeaveLoop ==
    /\ bpc = "check"
    /\ breaks(totalPages, perPage, page, items)
    /\ bpc' = "done"
    /\ UNCHANGED <<backupInputs, perPage, totalPages, page, items, requested,
                   handled, besideBackup>>

\* lines 289 and 312-316: no break, page++
NextPage ==
    /\ bpc = "check"
    /\ ~breaks(totalPages, perPage, page, items)
    /\ page' = page + 1
    /\ bpc' = "fetch"
    /\ UNCHANGED <<backupInputs, perPage, totalPages, items, requested,
                   handled, besideBackup>>

BackupNext ==
    \/ BackupArgs
    \/ FetchMediaPage
    \/ FetchFails
    \/ HandleItems
    \/ DownloadFails
    \/ LeaveLoop
    \/ NextPage

BackupPositions == {"args", "fetch", "items", "check", "done", "failed"}

BackupRunning == bpc \notin {"done", "failed"}

\* backupMedia moves on to its next statement
BackupAdvance == BackupRunning /\ bpc' \in BackupPositions /\ bpc' # bpc

\* backupMedia is one sequence of statements that node runs to its end,
\* and every request and download is answered or fails
BackupSpec == BackupInit /\ [][BackupNext]_vars /\ WF_bpc(BackupAdvance)

(***************************************************************************)
(* scrape-images: the request loop of main                                 *)
(***************************************************************************)
MaxScrape == 3

DefaultDelayMs == 1000

ElemA == [id |-> Num(10), link |-> Str("https://x.test/a")]
ElemB == [id |-> Num(20), link |-> Str("https://x.test/nl\\/b")]
ElemNoId == [link |-> Str("https://x.test/c")]

\* what a page answers with: the images and the map iframe taken from its
\* HTML
Replies ==
    {[images |-> <<"https://x.test/wp-content/uploads/i.jpg">>,
      mapIframe |-> Str("<iframe src='https://www.google.com/maps/embed'>")]}

\* the messages of the errors fetchHtml throws: a status that is not 2xx,
\* the abort after timeoutMs
Failures == {"HTTP 500 Internal Server Error", "This operation was aborted"}

\* lines 171-174: the elements with a number id and a string link
RECURSIVE pageLinks(_)
pageLinks(data) ==
    IF data = <<>> THEN <<>>
    ELSE IF Field(Head(data), "id").t = "number"
            /\ IsStr(Field(Head(data), "link"))
         THEN <<[id |-> Head(data).id,
                 link |-> replaceAll(Head(data).link.s, "\\/", "/")]>>
                \o pageLinks(Tail(data))
         ELSE pageLinks(Tail(data))

\* line 176
selectPages(links, lim) ==
    IF lim.t = "number"
    THEN slice(links, 0, ToInteger(MathMax0(lim.n)))
    ELSE links

\* a sleep after every request, the last one too
pausesAfterEach(pos, n, delay) == delay.n > 0

\* line 206: i is the 0-based position of the page just handled
pauses(pos, n, delay) == pos < n - 1 /\ delay.n > 0

ScrapeInit ==
    /\ NoRun
    /\ NoCall
    /\ NoBackup
    /\ NoRename
    /\ NoCascade
    /\ scrapeData \in SeqsUpTo({ElemA, ElemB, ElemNoId}, MaxScrape)
    /\ scrapeLimitArg \in {Undef, Str("0"), Str("2")}
    /\ delayArg \in {Undef, Str("0"), Str("500"), Str("-5")}
    /\ spc = "args"
    /\ delayMs = Undef
    /\ toScrape = <<>>
    /\ at = 0
    /\ results = <<>>
    /\ timeline = <<>>
    /\ progress = <<>>
    /\ rowsFile = <<>>

\* lines 157-179
ScrapeArgs ==
    /\ spc = "args"
    /\ delayMs' = IF getArgInt(delayArg) = Undef THEN Num(10 * DefaultDelayMs)
                  ELSE getArgInt(delayArg)
    /\ toScrape' = selectPages(pageLinks(scrapeData), getArgInt(scrapeLimitArg))
    /\ at' = 0
    /\ results' = <<>>
    /\ spc' = "loop"
    /\ UNCHANGED <<scrapeInputs, timeline, progress, rowsFile, besideScrape>>

\* lines 179-184 and 138: the progress line, then the request goes out
BeginRequest ==
    /\ spc = "loop"
    /\ at < Len(toScrape)
    /\ progress' = Append(progress, [i |-> at + 1, of |-> Len(toScrape),
                                     id |-> toScrape[at + 1].id,
                                     link |-> toScrape[at + 1].link])
    /\ timeline' = Append(timeline, [e |-> "begin", k |-> at + 1, ms |-> 0,
                                     ok |-> TRUE])
    /\ spc' = "fetch"
    /\ UNCHANGED <<scrapeInputs, delayMs, toScrape, at, results, rowsFile,
                   besideScrape>>

\* lines 184-200: the page answers and its row is pushed
RequestSucceeds ==
    /\ spc = "fetch"
    /\ \E reply \in Replies :
           results' = Append(results, [id |-> toScrape[at + 1].id,
                                       link |-> toScrape[at + 1].link,
                                       images |-> reply.images,
                                       mapIframe |-> reply.mapIframe,
                                       error |-> Undef])
    /\ timeline' = Append(timeline, [e |-> "end", k |-> at + 1, ms |-> 0,
                                     ok |-> TRUE])
    /\ spc' = "settle"
    /\ UNCHANGED <<scrapeInputs, delayMs, toScrape, at, progress, rowsFile,
                   besideScrape>>

\* lines 146-148, 135 and 201-204: fetchHtml throws and the catch pushes
\* the row
RequestFails ==
    /\ spc = "fetch"
    /\ \E msg \in Failures :
           results' = Append(results, [id |-> toScrape[at + 1].id,
                                       link |-> toScrape[at + 1].link,
                                       images |-> <<>>,
                                       mapIframe |-> Undef,
                                       error |-> Str(msg)])
    /\ timeline' = Append(timeline, [e |-> "end", k |-> at + 1, ms |-> 0,
                                     ok |-> FALSE])
    /\ spc' = "settle"
    /\ UNCHANGED <<scrapeInputs, delayMs, toScrape, at, progress, rowsFile,
                   besideScrape>>

\* lines 206-208 and 179: await sleep(delayMs), i++
Sleep ==
    /\ spc = "settle"
    /\ pauses(at, Len(toScrape), delayMs)
    /\ timeline' = Append(timeline, [e |-> "sleep", k |-> at + 1,
                                     ms |-> delayMs.n, ok |-> TRUE])
    /\ at' = at + 1
    /\ spc' = "loop"
    /\ UNCHANGED <<scrapeInputs, delayMs, toScrape, results, progress,
                   rowsFile, besideScrape>>

\* lines 206 and 179: no sleep, i++
NoSleep ==
    /\ spc = "settle"
    /\ ~pauses(at, Len(toScrape), delayMs)
    /\ at' = at + 1
    /\ spc' = "loop"
    /\ UNCHANGED <<scrapeInputs, delayMs, toScrape, results, timeline,
                   progress, rowsFile, besideScrape>>

\* lines 179 and 211-212: the loop is over, the rows are written
WriteRows ==
    /\ spc = "loop"
    /\ at >= Len(toScrape)
    /\ rowsFile' = <<results>>
    /\ spc' = "done"
    /\ UNCHANGED <<scrapeInputs, delayMs, toScrape, at, results, timeline,
                   progress, besideScrape>>

ScrapeNext ==
    \/ ScrapeArgs
    \/ BeginRequest
    \/ RequestSucceeds
    \/ RequestFails
    \/ Sleep
    \/ NoSleep
    \/ WriteRows

ScrapePositions == {"args", "loop", "fetch", "settle", "done"}

\* main moves on to its next statement
ScrapeAdvance == spc # "done" /\ spc' \in ScrapePositions /\ spc' # spc

\* main is one sequence of statements that node runs to its end; every
\* request is answered, fails or is aborted after timeoutMs, and every
\* sleep ends
ScrapeSpec == ScrapeInit /\ [][ScrapeNext]_vars /\ WF_spc(ScrapeAdvance)

(***************************************************************************)
(* seo-rename-product-media.  Paths are written relative to the working    *)
(* directory, as the rows of the mapping are; the absolute paths the code  *)
(* sorts share the working directory as a prefix, so they sort alike.      *)
(***************************************************************************)
MaxFiles == 4

\* line 105: the default of --inRoot
InRoot == "product-media"

\* line 106: the default of --outRoot
OutRoot == "product-media-seo"

\* the files a tree is drawn from
CandidateFiles ==
    {"product-media/golf/cornwall-golf/2017/11/IMG_1.jpg",
     "product-media/golf/cornwall-golf/2017/11/a.JPG",
     "product-media/golf/cornwall-golf/2017/11/cornwall-golf-01.jpg",
     "product-media/golf/cornwall-golf/2018/01/b.png",
     "product-media/golf/cornwall-golf/notes.txt",
     "product-media/golf/Foo_Bar/2017/11/a.jpg",
     "product-media/golf/Foo_Bar/2017/11/a.png"}

\* the characters of the paths in the order of their UTF-16 code units
CodeOrder ==
    "-./0123456789ABCDEFGHIJKLMNOPQRSTUVWXYZ_abcdefghijklmnopqrstuvwxyz"

codeUnit(c) == IndexOfFrom(CodeOrder, c, 1)

\* a sorts before b under Array.prototype.sort without a comparator; the
\* strings agree before position k
RECURSIVE before(_, _, _)
before(a, b, k) ==
    IF k > Len(a) THEN k <= Len(b)
    ELSE IF k > Len(b) THEN FALSE
    ELSE IF Ch(a, k) = Ch(b, k) THEN before(a, b, k + 1)
    ELSE codeUnit(Ch(a, k)) < codeUnit(Ch(b, k))

least(S) == CHOOSE x \in S : \A y \in S : x = y \/ before(x, y, 1)

\* lines 118 and 134: sort()
RECURSIVE sortStrings(_)
RECURSIVE sortFrom(_, _)
sortStrings(S) == IF S = {} THEN <<>> ELSE sortFrom(S, least(S))
sortFrom(S, m) == <<m>> \o sortStrings(S \ {m})

\* path.join of two relative paths
joinPath(a, b) ==
    IF b = "" THEN a ELSE IF a = "" THEN b ELSE a \o "/" \o b

\* the file or directory f lies below the directory d
pathUnder(d, f) == startsWith(f, d \o "/")

\* path.relative(d, f) for f below d or f = d
relativeTo(d, f) == IF f = d THEN "" ELSE SubSeq(f, Len(d) + 2, Len(f))

RECURSIVE lastIndexFrom(_, _, _)
lastIndexFrom(s, c, k) ==
    IF k = 0 THEN 0
    ELSE IF Ch(s, k) = c THEN k
    ELSE lastIndexFrom(s, c, k - 1)

lastIndexOf(s, c) == lastIndexFrom(s, c, Len(s))

\* path.dirname
dirname(p) ==
    IF lastIndexOf(p, "/") = 0 THEN "."
    ELSE SubSeq(p, 1, lastIndexOf(p, "/") - 1)

basename(p) == SubSeq(p, lastIndexOf(p, "/") + 1, Len(p))

\* path.extname of a file name: from its last dot on, nothing when the
\* name has no dot or only a leading one
extnameOf(fileName) ==
    IF lastIndexOf(fileName, ".") <= 1 THEN ""
    ELSE SubSeq(fileName, lastIndexOf(fileName, "."), Len(fileName))

\* lines 94-96
extnameLower(filePath) == toLowerCase(extnameOf(basename(filePath)))

\* the directories of a tree: every directory holds a file somewhere below
dirsOf(files) ==
    UNION {{SubSeq(f, 1, j - 1) : j \in {k \in 1..Len(f) : Ch(f, k) = "/"}} :
           f \in files}

\* /^\d{4}$/ and /^\d{2}$/ on the first two directories of rel, the second
\* being a directory
yearMonthAt(rel) ==
    /\ Len(rel) >= 9
    /\ IsDigits(SubSeq(rel, 1, 4))
    /\ Ch(rel, 5) = "/"
    /\ IsDigits(SubSeq(rel, 6, 7))
    /\ Ch(rel, 8) = "/"

\* lines 50-61: dir holds a year folder that holds a month folder
hasYearMonth(files, dir) ==
    \E f \in files : pathUnder(dir, f) /\ yearMonthAt(relativeTo(dir, f))

\* lines 43-70: the walk stops at the first directory on its way down that
\* holds a year folder with a month folder
findProductRoots(files) ==
    {d \in dirsOf(files) :
        /\ hasYearMonth(files, d)
        /\ \A a \in dirsOf(files) : pathUnder(a, d) => ~hasYearMonth(files, a)}

RECURSIVE mapRelative(_, _)
mapRelative(d, paths) ==
    IF paths = <<>> THEN <<>>
    ELSE <<relativeTo(d, Head(paths))>> \o mapRelative(d, Tail(paths))

\* lines 118-123
selectProducts(files, lim) ==
    IF lim.t = "number"
    THEN slice(mapRelative(InRoot, sortStrings(findProductRoots(files))), 0,
               ToInteger(MathMax0(lim.n)))
    ELSE mapRelative(InRoot, sortStrings(findProductRoots(files)))

SlugChars ==
    {Ch(LowerAlpha, k) : k \in 1..Len(LowerAlpha)}
        \cup {Ch(Digits, k) : k \in 1..Len(Digits)} \cup {"-"}

\* replace(/[^a-z0-9-]+/g, '-') from position k on
RECURSIVE dashRuns(_, _)
dashRuns(s, k) ==
    IF k > Len(s) THEN ""
    ELSE IF Ch(s, k) \in SlugChars THEN Ch(s, k) \o dashRuns(s, k + 1)
    ELSE IF k > 1 /\ Ch(s, k - 1) \notin SlugChars THEN dashRuns(s, k + 1)
    ELSE "-" \o dashRuns(s, k + 1)

\* replace(/-+/g, '-') from position k on
RECURSIVE dashOnce(_, _)
dashOnce(s, k) ==
    IF k > Len(s) THEN ""
    ELSE IF Ch(s, k) = "-" /\ k > 1 /\ Ch(s, k - 1) = "-"
         THEN dashOnce(s, k + 1)
    ELSE Ch(s, k) \o dashOnce(s, k + 1)

\* replace(/^-|-$/g, '')
trimDash(s) ==
    SubSeq(s, IF startsWith(s, "-") THEN 2 ELSE 1,
              IF endsWith(s, "-") THEN Len(s) - 1 ELSE Len(s))

lastSegment(parts) == IF parts = <<>> THEN "product" ELSE parts[Len(parts)]

\* slice(0, 80)
first80(s) == IF Len(s) > 80 THEN SubSeq(s, 1, 80) ELSE s

\* lines 76-86
slugBaseName(productSlugPath) ==
    first80(trimDash(dashOnce(dashRuns(toLowerCase(
                lastSegment(filterBoolean(split(productSlugPath, "/")))),
                1), 1)))

\* lines 88-92: the path below the product folder when it starts with a
\* year and a month folder
uploadsRelFromProductPath(absFile, productRootAbs) ==
    IF yearMonthAt(relativeTo(productRootAbs, absFile))
       /\ Ch(relativeTo(productRootAbs, absFile), 9) # "/"
    THEN Str(relativeTo(productRootAbs, absFile))
    ELSE Undef

\* String(num)
RECURSIVE numStr(_)
numStr(num) ==
    IF num < 10 THEN Ch(Digits, num + 1)
    ELSE numStr(num \div 10) \o Ch(Digits, (num % 10) + 1)

RECURSIVE zeros(_)
zeros(n) == IF n <= 0 THEN "" ELSE "0" \o zeros(n - 1)

\* lines 98-101
pad(num, width) == zeros(width - Len(numStr(num))) \o numStr(num)

\* lines 143 and 146
targetName(base, num, ext) == base \o "-" \o pad(num, 2) \o ext

\* lines 143-147: the first number from num on whose name is not in used
RECURSIVE freeIdx(_, _, _, _)
freeIdx(base, ext, used, num) ==
    IF targetName(base, num, ext) \in used
    THEN freeIdx(base, ext, used, num + 1)
    ELSE num

\* lines 106 and 111
outRootOf(arg) == IF arg = Undef THEN OutRoot ELSE arg.s

\* copyFile: dest holds what src holds, whether or not it existed
copyFile(files, src, dest) ==
    [p \in DOMAIN files \cup {dest} |-> IF p = dest THEN files[src]
                                        ELSE files[p]]

RenameInit ==
    /\ NoRun
    /\ NoCall
    /\ NoBackup
    /\ NoScrape
    /\ NoCascade
    /\ tree \in {S \in SUBSET CandidateFiles : Cardinality(S) <= MaxFiles}
    /\ outRootArg \in {Undef, Str(InRoot)}
    /\ limitProductsArg \in {Undef, Str("1")}
    /\ disk = [p \in tree |-> p]
    /\ rpc = "args"
    /\ selected = <<>>
    /\ productAt = 1
    /\ sortedFiles = <<>>
    /\ fileAt = 1
    /\ idx = 1
    /\ usedNames = {}
    /\ mapping = <<>>
    /\ reports = <<>>

\* lines 104-125
RenameArgs ==
    /\ rpc = "args"
    /\ selected' = selectProducts(DOMAIN disk, getArgInt(limitProductsArg))
    /\ productAt' = 1
    /\ mapping' = <<>>
    /\ rpc' = "product"
    /\ UNCHANGED <<renameInputs, disk, sortedFiles, fileAt, idx, usedNames,
                   reports, besideRename>>

\* lines 127-138: the product's files are listed and sorted
StartProduct ==
    /\ rpc = "product"
    /\ productAt <= Len(selected)
    /\ sortedFiles' = sortStrings({f \in DOMAIN disk :
                           pathUnder(joinPath(InRoot, selected[productAt]), f)})
    /\ usedNames' = {}
    /\ idx' = 1
    /\ fileAt' = 1
    /\ rpc' = "file"
    /\ UNCHANGED <<renameInputs, disk, selected, productAt, mapping, reports,
                   besideRename>>

\* lines 138-140: a file outside the year and month folders
SkipFile ==
    /\ rpc = "file"
    /\ fileAt <= Len(sortedFiles)
    /\ uploadsRelFromProductPath(sortedFiles[fileAt],
           joinPath(InRoot, selected[productAt])) = Undef
    /\ fileAt' = fileAt + 1
    /\ UNCHANGED <<renameInputs, disk, rpc, selected, productAt, sortedFiles,
                   idx, usedNames, mapping, reports, besideRename>>

\* the body of lines 142-161 for the file src of the product at slugPath,
\* num being the number its name gets
CopyAs(src, slugPath, rel, num) ==
    /\ usedNames' = usedNames \cup
           {targetName(slugBaseName(slugPath), num, extnameLower(src))}
    /\ disk' = copyFile(disk, src,
           joinPath(joinPath(joinPath(outRootOf(outRootArg), slugPath),
                             dirname(rel)),
                    targetName(slugBaseName(slugPath), num, extnameLower(src))))
    /\ mapping' = Append(mapping,
           [productSlugPath |-> slugPath,
            uploadsRel |-> rel,
            from |-> src,
            to |-> joinPath(joinPath(joinPath(outRootOf(outRootArg), slugPath),
                                     dirname(rel)),
                            targetName(slugBaseName(slugPath), num,
                                       extnameLower(src)))])
    /\ idx' = num + 1

\* lines 138-162: the file is copied under its new name and the row pushed
CopyFile ==
    /\ rpc = "file"
    /\ fileAt <= Len(sortedFiles)
    /\ uploadsRelFromProductPath(sortedFiles[fileAt],
           joinPath(InRoot, selected[productAt])) # Undef
    /\ CopyAs(sortedFiles[fileAt], selected[productAt],
              relativeTo(joinPath(InRoot, selected[productAt]),
                         sortedFiles[fileAt]),
              freeIdx(slugBaseName(selected[productAt]),
                      extnameLower(sortedFiles[fileAt]), usedNames, idx))
    /\ fileAt' = fileAt + 1
    /\ UNCHANGED <<renameInputs, rpc, selected, productAt, sortedFiles,
                   reports, besideRename>>

\* lines 127 and 138: the product's files are through
NextProduct ==
    /\ rpc = "file"
    /\ fileAt > Len(sortedFiles)
    /\ productAt' = productAt + 1
    /\ rpc' = "product"
    /\ UNCHANGED <<renameInputs, disk, selected, sortedFiles, fileAt, idx,
                   usedNames, mapping, reports, besideRename>>

\* lines 165-172: the mapping is written
WriteReports ==
    /\ rpc = "product"
    /\ productAt > Len(selected)
    /\ reports' = <<mapping>>
    /\ rpc' = "done"
    /\ UNCHANGED <<renameInputs, disk, selected, productAt, sortedFiles,
                   fileAt, idx, usedNames, mapping, besideRename>>

RenameNext ==
    \/ RenameArgs
    \/ StartProduct
    \/ SkipFile
    \/ CopyFile
    \/ NextProduct
    \/ WriteReports

RenameSpec == RenameInit /\ [][RenameNext]_vars

(***************************************************************************)
(* The loop body of main for one product, lines 190-229, with the probes   *)
(* of the index and the calls of bestTokenMatch one by one                 *)
(***************************************************************************)
\* a legacy URL with a query: its candidates hold both forms and their
\* rewrites
ProductQuery ==
    [slug |-> Str(""),
     old_urls |-> Str("https://x.test/nl/golfreis/foo?x=1")]

\* no legacy URL, two surviving tokens after the stop word
ProductFooBar ==
    [slug |-> Str("/golfreizen/Foo-Bar-golf/")]

\* a token that comes twice
ProductTwice ==
    [slug |-> Str("zzz-zzz")]

\* words of two characters and a stop word in upper case
ProductShort ==
    [slug |-> Str("/x/ab-12-Golf/")]

CascadeProducts ==
    {ProductFoo, ProductCornwall, ProductZzz, ProductOud, ProductQuery,
     ProductFooBar, ProductTwice, ProductShort}

\* an element of the pages file
pageAt(url) == [link |-> Str(url), images |-> Arr(<<Str(url \o ".jpg")>>)]

RECURSIVE pagesAt(_)
pagesAt(urls) ==
    IF urls = <<>> THEN <<>> ELSE <<pageAt(Head(urls))>> \o pagesAt(Tail(urls))

CascadeLinks ==
    {<<>>,
     <<"https://x.test/nl/foo-tour", "https://x.test/en/bar">>,
     <<"https://x.test/en/bar", "https://x.test/en/bar">>,
     <<"https://x.test/nl/foo", "https://x.test/nl/golfreis/foo">>,
     <<"https://x.test/nl/foo?x=1", "https://x.test/nl/foo">>,
     <<"http://g.nl/en/foo-bar", "http://g.nl/nl/foo", "http://g.nl/nl/bar">>,
     <<"http://g.nl/foo", "http://g.nl/en/foo", "http://g.nl/en/bar-foo">>,
     <<"http://g.nl/en/bar/">>,
     <<"http://g.nl/ZZZ-one", "http://g.nl/zzz-two", "http://g.nl/en/zz">>}

CascadePageFiles == {pagesAt(urls) : urls \in CascadeLinks}

CascadeInit ==
    /\ NoRun
    /\ NoCall
    /\ NoBackup
    /\ NoScrape
    /\ NoRename
    /\ mPagesJson \in CascadePageFiles
    /\ mProduct \in CascadeProducts
    /\ mpc = "pages"
    /\ mPages = <<>>
    /\ mByExact = EmptyMap
    /\ mOldUrlsRaw = ""
    /\ mOldUrls = <<>>
    /\ mSlug = ""
    /\ urlAt = 1
    /\ candAt = 1
    /\ probed = <<>>
    /\ mPageMatch = 0
    /\ mTokens = <<>>
    /\ passes = <<>>

\* lines 167-181
LoadPages ==
    /\ mpc = "pages"
    /\ mPages' = buildPages(mPagesJson)
    /\ mByExact' = indexPages(mPages')
    /\ mpc' = "product"
    /\ UNCHANGED <<cascadeInputs, mOldUrlsRaw, mOldUrls, mSlug, urlAt, candAt,
                   probed, mPageMatch, mTokens, passes, besideCascade>>

\* lines 190-198
TakeProduct ==
    /\ mpc = "product"
    /\ mOldUrlsRaw' = IF IsStr(Field(mProduct, "old_urls"))
                      THEN mProduct.old_urls.s ELSE ""
    /\ mOldUrls' = IF mOldUrlsRaw' # "" THEN splitOldUrls(mOldUrlsRaw')
                   ELSE <<>>
    /\ mSlug' = IF IsStr(Field(mProduct, "slug")) THEN mProduct.slug.s ELSE ""
    /\ mPageMatch' = 0
    /\ urlAt' = 1
    /\ candAt' = 1
    /\ mpc' = "probe"
    /\ UNCHANGED <<cascadeInputs, mPages, mByExact, probed, mTokens, passes,
                   besideCascade>>

\* line 199: the candidates of the legacy URL the outer loop stands at
candsAt(urls, k) == deriveCandidatesFromOldUrl(urls[k])

\* a hit that is noted while the loops go on: the last hit stays
ProbeHitGoesOn ==
    /\ mpc = "probe"
    /\ urlAt <= Len(mOldUrls)
    /\ candAt <= Len(candsAt(mOldUrls, urlAt))
    /\ candsAt(mOldUrls, urlAt)[candAt] \in DOMAIN mByExact
    /\ probed' = Append(probed, candsAt(mOldUrls, urlAt)[candAt])
    /\ mPageMatch' = mByExact[candsAt(mOldUrls, urlAt)[candAt]]
    /\ candAt' = candAt + 1
    /\ UNCHANGED <<cascadeInputs, mpc, mPages, mByExact, mOldUrlsRaw, mOldUrls,
                   mSlug, urlAt, mTokens, passes, besideCascade>>

\* lines 200-206: byExact.get(cand) returns a page; both loops are left
ProbeHit ==
    /\ mpc = "probe"
    /\ urlAt <= Len(mOldUrls)
    /\ candAt <= Len(candsAt(mOldUrls, urlAt))
    /\ candsAt(mOldUrls, urlAt)[candAt] \in DOMAIN mByExact
    /\ probed' = Append(probed, candsAt(mOldUrls, urlAt)[candAt])
    /\ mPageMatch' = mByExact[candsAt(mOldUrls, urlAt)[candAt]]
    /\ mpc' = "tail"
    /\ UNCHANGED <<cascadeInputs, mPages, mByExact, mOldUrlsRaw, mOldUrls,
                   mSlug, urlAt, candAt, mTokens, passes, besideCascade>>

\* lines 199-201: byExact.get(cand) returns undefined; the next candidate
ProbeMiss ==
    /\ mpc = "probe"
    /\ urlAt <= Len(mOldUrls)
    /\ candAt <= Len(candsAt(mOldUrls, urlAt))
    /\ candsAt(mOldUrls, urlAt)[candAt] \notin DOMAIN mByExact
    /\ probed' = Append(probed, candsAt(mOldUrls, urlAt)[candAt])
    /\ candAt' = candAt + 1
    /\ UNCHANGED <<cascadeInputs, mpc, mPages, mByExact, mOldUrlsRaw, mOldUrls,
                   mSlug, urlAt, mPageMatch, mTokens, passes, besideCascade>>

\* lines 198-206: the candidates of oldUrl have run out; the next legacy URL
NextUrl ==
    /\ mpc = "probe"
    /\ urlAt <= Len(mOldUrls)
    /\ candAt > Len(candsAt(mOldUrls, urlAt))
    /\ urlAt' = urlAt + 1
    /\ candAt' = 1
    /\ UNCHANGED <<cascadeInputs, mpc, mPages, mByExact, mOldUrlsRaw, mOldUrls,
                   mSlug, probed, mPageMatch, mTokens, passes, besideCascade>>

\* lines 198-207: the legacy URLs have run out
ProbesDone ==
    /\ mpc = "probe"
    /\ urlAt > Len(mOldUrls)
    /\ mpc' = "tail"
    /\ UNCHANGED <<cascadeInputs, mPages, mByExact, mOldUrlsRaw, mOldUrls,
                   mSlug, urlAt, candAt, probed, mPageMatch, mTokens, passes,
                   besideCascade>>

\* lines 209-223
TailFallback ==
    /\ mpc = "tail"
    /\ mPageMatch' = tier2(mPageMatch, mPages, mOldUrls)
    /\ mpc' = "tokens"
    /\ UNCHANGED <<cascadeInputs, mPages, mByExact, mOldUrlsRaw, mOldUrls,
                   mSlug, urlAt, candAt, probed, mTokens, passes,
                   besideCascade>>

\* lines 226-227
Tokenize ==
    /\ mpc = "tokens"
    /\ mPageMatch = 0 /\ mSlug # ""
    /\ mTokens' = tokenizeSlug(mSlug)
    /\ mpc' = "nl"
    /\ UNCHANGED <<cascadeInputs, mPages, mByExact, mOldUrlsRaw, mOldUrls,
                   mSlug, urlAt, candAt, probed, mPageMatch, passes,
                   besideCascade>>

\* line 226: a match is there or the slug is empty
SkipTokens ==
    /\ mpc = "tokens"
    /\ ~(mPageMatch = 0 /\ mSlug # "")
    /\ mpc' = "done"
    /\ UNCHANGED <<cascadeInputs, mPages, mByExact, mOldUrlsRaw, mOldUrls,
                   mSlug, urlAt, candAt, probed, mPageMatch, mTokens, passes,
                   besideCascade>>

\* the result of one call of bestTokenMatch
passOf(pgs, tks, preferLang) ==
    [lang |-> preferLang, page |-> bestTokenMatch(pgs, tks, preferLang)]

\* both calls made whatever the first returns: the second result stays
PassNlAlways ==
    /\ mpc = "nl"
    /\ passes' = Append(passes, passOf(mPages, mTokens, "nl"))
    /\ mPageMatch' = passOf(mPages, mTokens, "nl").page
    /\ mpc' = "en"
    /\ UNCHANGED <<cascadeInputs, mPages, mByExact, mOldUrlsRaw, mOldUrls,
                   mSlug, urlAt, candAt, probed, mTokens, besideCascade>>

\* line 228, left of ??: a page ends the expression, undefined goes on to
\* the right
PassNl ==
    /\ mpc = "nl"
    /\ passes' = Append(passes, passOf(mPages, mTokens, "nl"))
    /\ mPageMatch' = passOf(mPages, mTokens, "nl").page
    /\ mpc' = IF mPageMatch' # 0 THEN "done" ELSE "en"
    /\ UNCHANGED <<cascadeInputs, mPages, mByExact, mOldUrlsRaw, mOldUrls,
                   mSlug, urlAt, candAt, probed, mTokens, besideCascade>>

\* line 228, right of ??
PassEn ==
    /\ mpc = "en"
    /\ passes' = Append(passes, passOf(mPages, mTokens, "en"))
    /\ mPageMatch' = passOf(mPages, mTokens, "en").page
    /\ mpc' = "done"
    /\ UNCHANGED <<cascadeInputs, mPages, mByExact, mOldUrlsRaw, mOldUrls,
                   mSlug, urlAt, candAt, probed, mTokens, besideCascade>>

CascadeNext ==
    \/ LoadPages
    \/ TakeProduct
    \/ ProbeHit
    \/ ProbeMiss
    \/ NextUrl
    \/ ProbesDone
    \/ TailFallback
    \/ Tokenize
    \/ SkipTokens
    \/ PassNl
    \/ PassEn

CascadeSpec == CascadeInit /\ [][CascadeNext]_vars

(***************************************************************************)
(* Properties                                                              *)
(***************************************************************************)
Range(a) == {a[k] : k \in DOMAIN a}

\* the product whose record was appended last
LastIn == toProcess[i - 1]
LastOut == enriched[i - 1]
JustEnriched == pc = "loop" /\ i > 1

\* some page's lower-cased link holds a surviving token of the slug
AnyTokenHit ==
    \E k \in 1..Len(pages) : \E tk \in Range(tokenizeSlug(slug)) :
        includes(toLowerCase(pages[k].link), tk)

\* C1: tier 3 never accepts a page on the language bonus alone: when no
\* page's lower-cased link holds a surviving slug token, the token step
\* leaves the product without a match.
C1_NoMatchOnBonusAlone ==
    [][(pc = "tier3" /\ pageMatch = 0 /\ slug # "" /\ ~AnyTokenHit)
          => pageMatch' = 0]_vars

\* what the cascade must yield for the current product, tier by tier
CascadeResult ==
    IF tier1(byExact, oldUrls) # 0 THEN tier1(byExact, oldUrls)
    ELSE IF tier2Candidates(pages, oldUrls) # <<>>
    THEN preferBestMatch(pages, tier2Candidates(pages, oldUrls), "nl")
    ELSE IF slug # "" THEN tokenMatch(pages, tokenizeSlug(slug))
    ELSE 0

\* C2: the tiers are a strict priority cascade: the match handed to the
\* enrichment is tier 1's page when tier 1 found one, else tier 2's page
\* when tier 2 found one, else tier 3's page when the slug is non-empty.
C2_TierPriority == pc = "enrich" => pageMatch = CascadeResult

\* tier 1 hit one page while the slug tokens alone would select another
C2_Witness ==
    /\ pc = "enrich"
    /\ tier1(byExact, oldUrls) # 0
    /\ slug # ""
    /\ tokenMatch(pages, tokenizeSlug(slug)) # 0
    /\ tokenMatch(pages, tokenizeSlug(slug)) # pageMatch

ExampleRun ==
    /\ productsJson = <<ProductFoo>>
    /\ pagesJson = <<PageFoo>>
    /\ limitArg = Undef

\* C3: the end-to-end example (one product, one page, no --limit) ends with
\* the single output product holding images ["https://x.test/a.jpg"] and
\* with matched = 1, unmatched = 0.
C3_EndToEnd ==
    (pc = "done" /\ ExampleRun) =>
        /\ written =
             << <<[slug |-> Str("/golfreizen/nl/foo-tour"),
                   old_urls |-> Str("https://x.test/nl/golfreizen/foo-tour"),
                   images |-> Arr(<<Str("https://x.test/a.jpg")>>)]>> >>
        /\ stdout = <<[total |-> 1, matched |-> 1, unmatched |-> 0]>>

C3_Witness == pc = "done" /\ ExampleRun /\ written # <<>>

\* every normalized form of every legacy URL of the current product that
\* holds a segment of the set has its collapsed form among the candidates,
\* and tier 1 has a match whenever the index holds the collapsed form
CollapsesAll(segments) ==
    \A k \in 1..Len(oldUrls) :
      \A form \in {normalizeForMatch(oldUrls[k]).full,
                   normalizeForMatch(oldUrls[k]).noQuery} :
        \A r \in segments :
          includes(form, r.seg) =>
            /\ replace(form, r.seg, r.to)
                 \in Range(deriveCandidatesFromOldUrl(oldUrls[k]))
            /\ replace(form, r.seg, r.to) \in DOMAIN byExact
                 => pageMatch # 0

Output == written[1]

\* the --limit value is a non-negative integer
LimitIsCount == limit.t = "number" /\ limit.n >= 0 /\ limit.n % 10 = 0

\* C5: with n input products and a limit L that is a non-negative integer,
\* the output has length n, every record at a 0-based index >= L is the
\* input record itself and every record at a 0-based index < min(L, n) has
\* an images field.
C5_LimitBoundary ==
    (pc = "done" /\ LimitIsCount) =>
        /\ Len(Output) = Len(productsJson)
        /\ \A k \in 1..Len(productsJson) :
             /\ k > limit.n \div 10 => Output[k] = productsJson[k]
             /\ k <= limit.n \div 10 => "images" \in DOMAIN Output[k]

\* --limit 1 with two products: the second is written as it came, without
\* images, the first has gained images
C5_Witness ==
    /\ pc = "done"
    /\ limit = Num(10)
    /\ Len(productsJson) = 2
    /\ "images" \notin DOMAIN productsJson[1]
    /\ "images" \notin DOMAIN productsJson[2]
    /\ Len(Output) = 2
    /\ "images" \in DOMAIN Output[1]
    /\ "images" \notin DOMAIN Output[2]

\* C6: output record k is derived from input record k: the output has the
\* input's length and every field of input record k other than images and
\* mapIframe is in output record k with the same value, whatever the run.
C6_OrderAndPassthrough ==
    pc = "done" =>
        /\ Len(Output) = Len(productsJson)
        /\ \A k \in 1..Len(productsJson) :
             \A f \in DOMAIN productsJson[k] \ {"images", "mapIframe"} :
                /\ f \in DOMAIN Output[k]
                /\ Output[k][f] = productsJson[k][f]

\* C7: the record of a product run through the matcher always has images:
\* the matched page's images (its string elements, in page order) when a
\* tier matched, the empty sequence otherwise, whatever images the input
\* record carried.
C7_ImagesFromMatch ==
    JustEnriched =>
        /\ "images" \in DOMAIN LastOut
        /\ LastOut.images.t = "array"
        /\ \A k \in 1..Len(LastOut.images.a) : IsStr(LastOut.images.a[k])
        /\ pageMatch = 0 => LastOut.images = Arr(<<>>)
        /\ pageMatch # 0 => LastOut.images = Arr(pages[pageMatch].images)
        /\ (pageMatch # 0 /\ pages[pageMatch].link = "https://x.test/nl/cornwall-golf/?v=2")
             => LastOut.images = Arr(<<Str("https://x.test/b.jpg"),
                                       Str("https://x.test/c.jpg")>>)

\* a product that came with images, matched to the page whose images hold
\* a non-string element
C7_Witness ==
    /\ JustEnriched
    /\ "images" \in DOMAIN LastIn
    /\ pageMatch # 0
    /\ pages[pageMatch].link = "https://x.test/nl/cornwall-golf/?v=2"
    /\ LastOut.images # LastIn.images

\* C8: a processed record has a mapIframe field only if the product was
\* matched to a page that has a mapIframe string, also when the input
\* record came with a mapIframe of its own.
C8_MapIframeOnlyFromPage ==
    JustEnriched =>
        ("mapIframe" \in DOMAIN LastOut =>
            pageMatch # 0 /\ IsStr(pages[pageMatch].mapIframe))

\* the number of line breaks in a text
LinesIn(s) == Cardinality({k \in 1..Len(s) : Ch(s, k) = "\n"})

\* no tier found a page for a product with non-empty old_urls text
UnmatchedWithUrls == pageMatch = 0 /\ oldUrlsRaw # ""

\* C9 as stated: the enrichment of an unmatched product with non-empty
\* old_urls text adds exactly one line to the error stream, adds one to
\* unmatched and leaves matched alone; any other product adds nothing to
\* the error stream.
C9_OneDiagnosticLine ==
    [][pc = "enrich" =>
         IF UnmatchedWithUrls
         THEN /\ LinesIn(stderr') = LinesIn(stderr) + 1
              /\ unmatched' = unmatched + 1
              /\ matched' = matched
         ELSE stderr' = stderr]_vars

\* C9 amended: the enrichment of an unmatched product with non-empty
\* old_urls text appends exactly one diagnostic message, the text
\* "No media match for old_urls: " followed by the raw old_urls text and a
\* line break (so one line more than the raw text has line breaks), adds
\* one to unmatched and leaves matched alone; any other product adds
\* nothing to the error stream.
C9_OneDiagnosticMessage ==
    [][pc = "enrich" =>
         IF UnmatchedWithUrls
         THEN /\ stderr' = stderr \o "No media match for old_urls: "
                             \o oldUrlsRaw \o "\n"
              /\ LinesIn(stderr') = LinesIn(stderr) + LinesIn(oldUrlsRaw) + 1
              /\ unmatched' = unmatched + 1
              /\ matched' = matched
         ELSE stderr' = stderr]_vars

\* an unmatched product whose old_urls text spans two lines has been
\* reported
C9_Witness ==
    /\ JustEnriched
    /\ UnmatchedWithUrls
    /\ includes(oldUrlsRaw, "\n")
    /\ LinesIn(stderr) >= 2

\* the positions of the candidates under /nl/ when there are any, of all
\* candidates otherwise
SelectionPool(candidates) ==
    IF \E c \in Range(candidates) : includes(pages[c].link, "/nl/")
    THEN {c \in Range(candidates) : includes(pages[c].link, "/nl/")}
    ELSE Range(candidates)

\* tier 2 is the tier that decides for the current product
TailDecides ==
    tier1(byExact, oldUrls) = 0 /\ tier2Candidates(pages, oldUrls) # <<>>

\* C10: the page tier 2 selects is one of the candidates under /nl/ when
\* there is one and one of all candidates otherwise, and no page of that
\* pool has a shorter link; a longer /nl/ page wins over a shorter page
\* outside /nl/.
C10_TailSelection ==
    (pc = "tier3" /\ TailDecides) =>
        /\ pageMatch \in SelectionPool(tier2Candidates(pages, oldUrls))
        /\ \A c \in SelectionPool(tier2Candidates(pages, oldUrls)) :
             Len(pages[pageMatch].link) <= Len(pages[c].link)
        /\ (\E c \in Range(tier2Candidates(pages, oldUrls)) :
               includes(pages[c].link, "/nl/"))
             => includes(pages[pageMatch].link, "/nl/")

\* candidates of link lengths 30 and 20, none under /nl/: the second, of
\* length 20, is selected
C10_Witness ==
    /\ pc = "tier3"
    /\ TailDecides
    /\ tier2Candidates(pages, oldUrls) = <<1, 2>>
    /\ Len(pages[1].link) = 30
    /\ Len(pages[2].link) = 20
    /\ ~includes(pages[1].link, "/nl/")
    /\ ~includes(pages[2].link, "/nl/")
    /\ pageMatch = 2


\* position k of s belongs to a fragment: its character is no separator
\* and is either no white space or a single white space between two
\* characters that are neither
IsContent(s, k) ==
    /\ Ch(s, k) \notin SepChars
    /\ \/ ~IsWs(s, k)
       \/ /\ k > 1 /\ k < Len(s)
          /\ ~IsWs(s, k - 1) /\ Ch(s, k - 1) \notin SepChars
          /\ ~IsWs(s, k + 1) /\ Ch(s, k + 1) \notin SepChars

\* the maximal runs of fragment positions of s from k on, in order; cur is
\* the run that ends just before k
RECURSIVE Fragments(_, _, _)
Fragments(s, k, cur) ==
    IF k > Len(s) THEN (IF cur = "" THEN <<>> ELSE <<cur>>)
    ELSE IF IsContent(s, k) THEN Fragments(s, k + 1, cur \o Ch(s, k))
    ELSE (IF cur = "" THEN <<>> ELSE <<cur>>) \o Fragments(s, k + 1, "")

HasDoubleSpace(s) == \E k \in 1..Len(s) - 1 : IsWs(s, k) /\ IsWs(s, k + 1)
HasSeparator(s) == \E k \in 1..Len(s) : Ch(s, k) \in SepChars

\* C11: splitOldUrls returns the non-empty trimmed fragments of its input
\* in their order: it splits on runs of commas, semicolons and newlines
\* with the white space around them and on two or more white-space
\* characters, not on a single space; no entry is empty or white space
\* only; the example text yields a.com, b.com, c.com, d.com.
C11_SplitOldUrls ==
    callee = "splitOldUrls" =>
        /\ returned = Fragments(argument, 1, "")
        /\ \A k \in 1..Len(returned) :
             /\ returned[k] # ""
             /\ trim(returned[k]) = returned[k]
             /\ ~HasSeparator(returned[k])
             /\ ~HasDoubleSpace(returned[k])
        /\ (~HasSeparator(argument) /\ ~HasDoubleSpace(argument)
              /\ trim(argument) # "") => returned = <<trim(argument)>>
        /\ argument = "a.com\nb.com; c.com,,  d.com"
             => returned = <<"a.com", "b.com", "c.com", "d.com">>

\* the example text has been split in four
C11_Witness ==
    /\ callee = "splitOldUrls"
    /\ argument = "a.com\nb.com; c.com,,  d.com"
    /\ Len(returned) = 4


\* C12: normalization is idempotent: normalizeForMatch of the full form it
\* returned gives the same full/noQuery pair again, and normalizeUrlish of
\* a URL it returned gives that URL again, for every input string.
C12_Idempotent ==
    /\ callee = "normalizeForMatch"
         => normalizeForMatch(returned.full) = returned
    /\ (callee = "normalizeUrlish" /\ ParseUrl(returned).ok)
         => normalizeUrlish(returned) = returned

\* the text handed to new URL by normalizeUrlish is rejected
CatchTaken == ~ParseUrl(replaceAll(trim(argument), "\\/", "/")).ok

\* C13 as stated: for an input that does not parse as a URL both forms are
\* the trimmed input, character for character.
C13_TrimmedInput ==
    (callee = "normalizeForMatch" /\ CatchTaken) =>
        /\ returned.full = trim(argument)
        /\ returned.noQuery = trim(argument)

\* C13 amended: for an input that does not parse as a URL both forms are
\* the trimmed input with every escaped slash \/ replaced by /, so they are
\* the trimmed input itself when it holds no escaped slash; there is no
\* outcome of the call other than this pair.
C13_TrimmedUnescaped ==
    (callee = "normalizeForMatch" /\ CatchTaken) =>
        /\ DOMAIN returned = {"full", "noQuery"}
        /\ returned.full = replaceAll(trim(argument), "\\/", "/")
        /\ returned.noQuery = returned.full
        /\ ~includes(argument, "\\/") => returned.full = trim(argument)

\* a text with query and fragment marks that is no URL came back trimmed,
\* and one with an escaped slash came back unescaped
C13_Witness ==
    /\ callee = "normalizeForMatch"
    /\ CatchTaken
    /\ \/ argument = "/nl/golfreis/x?y=1#z" /\ returned.noQuery = argument
       \/ argument = " \\/nl\\/foo?q " /\ returned.full = "/nl/foo?q"


\* one of the input files is missing, is not JSON or holds no array
BadInput == productsFile # "array" \/ pagesFile # "array"

\* the message of the error names the path of a file that is at fault
NamesOffendingPath ==
    \/ productsFile # "array" /\ includes(error, ProductsIn)
    \/ pagesFile # "array" /\ includes(error, PagesIn)

\* C14: when an input file is missing, is not valid JSON or holds no JSON
\* array, the run fails with an error that names the offending path
\* ("Expected array in <path>" for a non-array) before the output file is
\* written and before any product is matched; the output file is never
\* written in a run that fails on an input error.
C14_FatalInputErrors ==
    /\ (BadInput /\ pc # "args") =>
          /\ pc = "failed"
          /\ error # ""
          /\ NamesOffendingPath
          /\ written = <<>> /\ stdout = <<>>
          /\ enriched = <<>> /\ matched = 0 /\ unmatched = 0
    /\ (pc = "failed" /\ productsFile = "object" /\ pagesFile = "array")
          => error = "Expected array in product-data.json"
    /\ (pc = "failed" /\ productsFile = "array" /\ pagesFile = "object")
          => error = "Expected array in wp-data/pages.images.json"
    /\ pc = "failed" => BadInput /\ written = <<>>
    /\ written # <<>> => ~BadInput /\ error = ""


\* C15: once both inputs are read as JSON arrays the run ends by writing
\* the output file and the summary, once each, and no error is thrown on
\* the way, also when no product matches and when there are no pages.
C15_AlwaysCompletes ==
    /\ [](pc \notin {"args", "failed"} => error = "")
    /\ (pc = "pages") ~>
         (pc = "done" /\ Len(written) = 1 /\ Len(stdout) = 1
            /\ stdout[1].total = Len(written[1]))

\* a run over an empty pages file came to its end with every product
\* unmatched
C15_Witness ==
    /\ pc = "done"
    /\ pagesJson = <<>>
    /\ Len(productsJson) = MaxProducts
    /\ limitArg = Undef
    /\ matched = 0
    /\ unmatched = MaxProducts
    /\ Len(written) = 1
    /\ Len(written[1]) = MaxProducts


\* the places in the pages file of the elements with a string link and an
\* array images
Kept ==
    {k \in 1..Len(pagesJson) :
        IsStr(Field(pagesJson[k], "link")) /\ IsArr(Field(pagesJson[k], "images"))}

\* the place in the pages file of the j-th kept element
Origin(j) == CHOOSE k \in Kept : Cardinality({m \in Kept : m <= k}) = j

\* the images of every dropped element of the pages file
DroppedImages ==
    UNION {IF IsArr(Field(pagesJson[k], "images"))
           THEN Range(pagesJson[k].images.a) ELSE {Field(pagesJson[k], "images")} :
              k \in (1..Len(pagesJson)) \ Kept}

\* C16: the pages the tiers search are the elements of the pages file with
\* a string link and an array images, in file order, each with the string
\* entries of its images in their order; a match is always one of them,
\* and no output record has an image of a dropped element.
C16_PageFiltering ==
    pc \in {"slice", "loop", "tier1", "tier2", "tier3", "enrich", "write", "done"} =>
        /\ Len(pages) = Cardinality(Kept)
        /\ \A j \in 1..Len(pages) :
             /\ pc = "slice" =>
                  pages[j].link = normalizeUrlish(pagesJson[Origin(j)].link.s)
             /\ pages[j].images =
                  SelectSeq(pagesJson[Origin(j)].images.a, LAMBDA x : x.t = "string")
        /\ \A key \in DOMAIN byExact : byExact[key] \in 1..Len(pages)
        /\ pageMatch \in 0..Len(pages)
        /\ \A k \in 1..Len(enriched) :
             "images" \in DOMAIN enriched[k] =>
                 \/ k > Len(toProcess)
                 \/ Range(enriched[k].images.a) \cap DroppedImages = {}

\* a product whose legacy URL is the link of a dropped element only (an
\* element whose images is a string) has been written without a match
C16_Witness ==
    /\ JustEnriched
    /\ pagesJson = <<PageBroken>>
    /\ pages = <<>>
    /\ LastIn = ProductFoo
    /\ pageMatch = 0
    /\ LastOut.images = Arr(<<>>)


(***************************************************************************)
(* backup-media: which pages are requested                                 *)
(***************************************************************************)
Upto(n) == [k \in 1..n |-> k]

PagesFlag == getArgInt(pagesArg)

HeaderTotal == discoveredTotal(totalPagesHeader)

\* the last requested page held fewer than perPage items and every page
\* before it held perPage items
StoppedAtShortPage ==
    /\ requested # <<>>
    /\ itemsOnPage(library, perPage.n \div 10, Len(requested))
           < perPage.n \div 10
    /\ \A k \in 1..(Len(requested) - 1) :
           itemsOnPage(library, perPage.n \div 10, k) >= perPage.n \div 10

InOrder == requested = Upto(Len(requested))

Terminates == <>(bpc \in {"done", "failed"})

\* C17 as stated: without --pages a header value T makes the loop request
\* exactly pages 1..T, without a header the loop stops after the first
\* page with fewer than perPage items, any supplied --pages value P bounds
\* the loop to pages 1..P, and the loop terminates.
C17_AnyTotal ==
    /\ [](/\ InOrder
          /\ (PagesFlag = Undef /\ HeaderTotal.t = "number" /\ bpc = "done")
                 => requested = Upto(HeaderTotal.n \div 10)
          /\ (PagesFlag = Undef /\ HeaderTotal = Undef /\ bpc = "done")
                 => StoppedAtShortPage
          /\ (PagesFlag # Undef /\ bpc = "done")
                 => requested = Upto(PagesFlag.n \div 10))
    /\ Terminates

\* C17 (amended): page 1 is always requested first and pages are requested
\* in ascending order, once each.  A --pages value P >= 1 bounds the loop
\* to pages 1..P whatever the header says; a negative P stops the loop
\* after page 1; --pages 0 counts as omitted.  Without a P other than 0, a
\* header value T >= 1 makes the loop request exactly pages 1..T, and a
\* missing, zero or non-numeric header makes it stop after the first page
\* with fewer than perPage items.  A run that is not ended by a failed
\* request or download requests exactly those pages, and every run ends.
C17_Pagination ==
    /\ [](/\ InOrder
          /\ bpc \notin {"args", "fetch"} => requested # <<>>
          /\ Truthy(PagesFlag) /\ PagesFlag.n > 0
                 => /\ Len(requested) <= PagesFlag.n \div 10
                    /\ bpc = "done" => requested = Upto(PagesFlag.n \div 10)
          /\ (Truthy(PagesFlag) /\ PagesFlag.n < 0 /\ bpc = "done")
                 => requested = <<1>>
          /\ (~Truthy(PagesFlag) /\ Truthy(HeaderTotal) /\ bpc = "done")
                 => requested = Upto(HeaderTotal.n \div 10)
          /\ (~Truthy(PagesFlag) /\ ~Truthy(HeaderTotal) /\ bpc = "done")
                 => StoppedAtShortPage)
    /\ Terminates

C17_Witness ==
    /\ bpc = "done"
    /\ PagesFlag = Undef
    /\ HeaderTotal = Num(30)
    /\ requested = <<1, 2, 3>>
    /\ handled = 3

(***************************************************************************)
(* scrape-images: the order of requests, sleeps and rows                   *)
(***************************************************************************)
\* the events of a whole run over pages k..n: page k is requested and its
\* request ends, a sleep of ms follows unless the page is the last or ms
\* is not positive, then the same for the pages after it
RECURSIVE Schedule(_, _, _)
Schedule(k, n, ms) ==
    IF k > n THEN <<>>
    ELSE <<[e |-> "begin", k |-> k, ms |-> 0],
           [e |-> "end", k |-> k, ms |-> 0]>>
         \o (IF k < n /\ ms > 0 THEN <<[e |-> "sleep", k |-> k, ms |-> ms]>>
             ELSE <<>>)
         \o Schedule(k + 1, n, ms)

Happened ==
    [j \in 1..Len(timeline) |->
        [e |-> timeline[j].e, k |-> timeline[j].k, ms |-> timeline[j].ms]]

IsPrefix(a, b) == Len(a) <= Len(b) /\ a = SubSeq(b, 1, Len(a))

Ended == {j \in 1..Len(timeline) : timeline[j].e = "end"}

\* C18: every selected page is requested once, in input order, a request
\* begins only after the one before it has ended, a sleep of delayMs lies
\* between two consecutive requests exactly when delayMs > 0 (after a
\* failed request too) and none after the last, the rows are the selected
\* pages in input order, a failed page gives a row with no images and an
\* error, and the run goes on to write the rows.
C18_SequentialRequests ==
    /\ [](/\ IsPrefix(Happened, Schedule(1, Len(toScrape), delayMs.n))
          /\ Len(results) = Cardinality(Ended)
          /\ \A j \in Ended :
                 /\ results[timeline[j].k].id = toScrape[timeline[j].k].id
                 /\ results[timeline[j].k].link = toScrape[timeline[j].k].link
                 /\ timeline[j].ok => results[timeline[j].k].error = Undef
                 /\ ~timeline[j].ok =>
                        /\ results[timeline[j].k].images = <<>>
                        /\ IsStr(results[timeline[j].k].error)
          /\ spc = "done" =>
                 /\ Happened = Schedule(1, Len(toScrape), delayMs.n)
                 /\ Len(results) = Len(toScrape)
                 /\ rowsFile = <<results>>
          /\ spc # "done" => rowsFile = <<>>)
    /\ (spc = "args") ~> (spc = "done")

C18_Witness ==
    /\ spc = "done"
    /\ delayMs = Num(5000)
    /\ Len(toScrape) = 3
    /\ Len(rowsFile[1]) = 3
    /\ rowsFile[1][1].error = Undef
    /\ rowsFile[1][2].error = Str("This operation was aborted")
    /\ rowsFile[1][3].error = Undef
    /\ Len(timeline) = 8
    /\ timeline[6].e = "sleep"

(***************************************************************************)
(* seo-rename-product-media: the mapping and the source files              *)
(***************************************************************************)
ToUnique ==
    \A j, k \in 1..Len(mapping) : j # k => mapping[j].to # mapping[k].to

FromUnique ==
    \A j, k \in 1..Len(mapping) : j # k => mapping[j].from # mapping[k].from

\* the number of rows of row j's product up to row j
RankInProduct(j) ==
    Cardinality({k \in 1..j :
                    mapping[k].productSlugPath = mapping[j].productSlugPath})

\* the rows of a product come in the sorted order of their source paths
\* and are named <base>-01<ext>, <base>-02<ext>, ... in that order
NumberedInPathOrder ==
    /\ \A j \in 1..Len(mapping) :
           basename(mapping[j].to) =
               targetName(slugBaseName(mapping[j].productSlugPath),
                          RankInProduct(j), extnameLower(mapping[j].from))
    /\ \A j, k \in 1..Len(mapping) :
           (j < k /\ mapping[j].productSlugPath = mapping[k].productSlugPath)
               => before(mapping[j].from, mapping[k].from, 1)

\* every file of the input root is still there and holds what it held
SourcesIntact == \A p \in tree : p \in DOMAIN disk /\ disk[p] = p

\* C19: no two rows of the mapping share their to path, no two share their
\* from path, within a product the target names are <base>-NN<ext> with NN
\* counting 01, 02, ... in sorted source-path order, and the files under
\* the input root are never overwritten or removed.
C19_Traceability ==
    /\ ToUnique
    /\ FromUnique
    /\ NumberedInPathOrder
    /\ SourcesIntact

(***************************************************************************)
(* Tier 2: which tail the candidates come from                             *)
(***************************************************************************)
\* line 216: the link holds the tail as a path segment or ends with it
HoldsTail(link, tl) ==
    includes(link, "/" \o tl \o "/") \/ endsWith(link, "/" \o tl)

\* the tails of the current product's legacy URLs, in the order of the URLs
UrlTails == tailsOf(oldUrls)

FirstAt(a, x) == MinOf({j \in 1..Len(a) : a[j] = x})

\* the positions in tails of the tails that some page holds
HitTails(tails) ==
    {k \in 1..Len(tails) :
        \E c \in 1..Len(pages) : HoldsTail(pages[c].link, tails[k])}

\* the pages that hold the first tail that any page holds
FirstTailPages(tails) ==
    IF HitTails(tails) = {} THEN {}
    ELSE {c \in 1..Len(pages) :
             HoldsTail(pages[c].link, tails[MinOf(HitTails(tails))])}

Ascending(a) == \A j, k \in 1..Len(a) : j < k => a[j] < a[k]

\* C20: when tier 1 has found nothing, the distinct tails stand in the
\* order in which their legacy URLs appear, the candidates are exactly the
\* pages that hold the first tail held by any page, in page order, and the
\* page selected is one of them; a page that holds only a later tail is no
\* candidate.
C20_FirstTailWins ==
    pc = "tier3" =>
        \A tails \in {uniq(UrlTails)}, cands \in {tier2Candidates(pages, oldUrls)} :
            /\ Range(tails) = Range(UrlTails)
            /\ \A j, k \in 1..Len(tails) :
                   j < k => /\ tails[j] # tails[k]
                            /\ FirstAt(UrlTails, tails[j])
                                   < FirstAt(UrlTails, tails[k])
            /\ Range(cands) = FirstTailPages(tails)
            /\ Ascending(cands)
            /\ \/ pageMatch \in Range(cands)
               \/ cands = <<>> /\ pageMatch = 0
               \/ tier1(byExact, oldUrls) # 0

\* the first tail, bar, is held by page 2 and the second, foo-tour, by page
\* 1: page 2 alone is the candidate
C20_Witness ==
    /\ pc = "tier3"
    /\ tier1(byExact, oldUrls) = 0
    /\ uniq(UrlTails) = <<"bar", "foo-tour">>
    /\ Len(pages) = 2
    /\ HoldsTail(pages[1].link, "foo-tour")
    /\ ~HoldsTail(pages[1].link, "bar")
    /\ HoldsTail(pages[2].link, "bar")
    /\ tier2Candidates(pages, oldUrls) = <<2>>
    /\ pageMatch = 2

(***************************************************************************)
(* The output array under a numeric --limit                                *)
(***************************************************************************)
\* the fields of the input record other than images and mapIframe are in
\* the output record with the same value
PassedThrough(in, out) ==
    \A f \in DOMAIN in \ {"images", "mapIframe"} :
        f \in DOMAIN out /\ out[f] = in[f]

\* C24: for every --limit that getArgInt returns as a number, negative
\* ones included, the written array holds every input product once and in
\* input order: it has the input's length, its first records are the
\* processed ones and the others are the unprocessed ones as they came.
C24_EveryProductOnce ==
    (pc = "done" /\ limit.t = "number") =>
        /\ Len(Output) = Len(productsJson)
        /\ \A k \in 1..Len(Output) :
             /\ k <= Len(toProcess) =>
                    /\ "images" \in DOMAIN Output[k]
                    /\ PassedThrough(productsJson[k], Output[k])
             /\ k > Len(toProcess) => Output[k] = productsJson[k]

\* --limit -1 with two products: nothing is processed and the last
\* product alone is written
C24_NegativeLimit ==
    /\ pc = "done"
    /\ limit = Num(-10)
    /\ Len(productsJson) = 2
    /\ toProcess = <<>>
    /\ Output = <<productsJson[2]>>

(***************************************************************************)
(* The counters of the summary line                                        *)
(***************************************************************************)
\* the products that have been through the loop body
ProcessedSoFar ==
    IF pc \in {"loop", "tier1", "tier2", "tier3", "enrich"} THEN i - 1
    ELSE IF pc \in {"write", "done"} THEN Len(toProcess)
    ELSE 0

\* the products the matcher is to run through: all of them without a
\* limit, the first min(L, n) with a limit L >= 0
ToBeMatched ==
    IF limit.t # "number" THEN Len(productsJson)
    ELSE IF limit.n \div 10 < Len(productsJson) THEN limit.n \div 10
    ELSE Len(productsJson)

CountersAgree ==
    /\ pc \in Positions => matched + unmatched = ProcessedSoFar
    /\ pc \in {"loop", "tier1", "tier2", "tier3", "enrich"} =>
           matched + unmatched = Len(enriched)
    /\ (pc \in {"write", "done"} /\ (limit.t = "number" => LimitIsCount)) =>
           matched + unmatched = ToBeMatched
    /\ pc = "done" =>
           /\ stdout[1].total = Len(Output)
           /\ stdout[1].matched = matched
           /\ stdout[1].unmatched = unmatched

\* a product has been processed and exactly one counter has grown by one
OneGrows ==
    i' # i =>
        /\ i' = i + 1
        /\ \/ matched' = matched + 1 /\ unmatched' = unmatched
           \/ matched' = matched /\ unmatched' = unmatched + 1
        /\ matched' = matched + 1 <=> pageMatch # 0

\* C25: each processed product makes exactly one of matched and unmatched
\* grow by one; all along the loop matched + unmatched is the number of
\* products processed so far, at the end it is the number of products run
\* through the matcher (all without a limit, the first min(L, n) with a
\* limit L >= 0), and the total of the summary line is the length of the
\* written array.
C25_CounterInvariant == []CountersAgree /\ [][OneGrows]_vars

\* two products without a limit, one matched and one not
C25_Witness ==
    /\ pc = "done"
    /\ limit = Undef
    /\ Len(productsJson) = 2
    /\ matched = 1
    /\ unmatched = 1
    /\ stdout[1] = [total |-> 2, matched |-> 1, unmatched |-> 1]
    /\ Len(Output) = 2

(***************************************************************************)
(* The probes of tier 1                                                    *)
(***************************************************************************)
\* the candidates of the legacy URLs, one legacy URL after the other
RECURSIVE FlatCandidates(_)
FlatCandidates(urls) ==
    IF urls = <<>> THEN <<>>
    ELSE deriveCandidatesFromOldUrl(Head(urls)) \o FlatCandidates(Tail(urls))

\* the positions of the candidates that are keys of the index
KeyedAt(flat) == {k \in 1..Len(flat) : flat[k] \in DOMAIN mByExact}

\* the pages whose full or noQuery form is the key
PagesUnder(key) ==
    {k \in 1..Len(mPages) :
        \/ normalizeForMatch(mPages[k].link).full = key
        \/ normalizeForMatch(mPages[k].link).noQuery = key}

\* the index holds the full and the noQuery form of every page, and under
\* a key the last page that has it
IndexOfPages ==
    /\ \A k \in 1..Len(mPages) :
          /\ normalizeForMatch(mPages[k].link).full \in DOMAIN mByExact
          /\ normalizeForMatch(mPages[k].link).noQuery \in DOMAIN mByExact
    /\ \A key \in DOMAIN mByExact :
          /\ PagesUnder(key) # {}
          /\ mByExact[key] = MaxOf(PagesUnder(key))

\* the probes made are the first candidates, in order
ProbesInOrder ==
    \A flat \in {FlatCandidates(mOldUrls)} :
        /\ IsPrefix(probed, flat)
        /\ \A k \in 1..(Len(probed) - 1) : k \notin KeyedAt(flat)

\* when tier 1 is over the probes end at the first key and its page is the
\* result
FirstKeyWins ==
    \A flat \in {FlatCandidates(mOldUrls)} :
        /\ KeyedAt(flat) = {} => probed = flat /\ mPageMatch = 0
        /\ KeyedAt(flat) # {} =>
              /\ probed = SubSeq(flat, 1, MinOf(KeyedAt(flat)))
              /\ mPageMatch = mByExact[flat[MinOf(KeyedAt(flat))]]
        /\ mPageMatch = tier1(mByExact, mOldUrls)

ProbeOrder ==
    /\ mpc \notin {"off", "pages"} => IndexOfPages
    /\ mpc \notin {"off", "pages", "product"} => ProbesInOrder
    /\ mpc = "tail" => FirstKeyWins

\* C21: the legacy URLs are tried in the order of the split and the
\* candidates of each in the order of their derivation; the result of tier
\* 1 is the page the index holds under the first candidate that is a key,
\* and after that hit no further candidate and no further legacy URL is
\* probed.
C21_ProbeOrder == []ProbeOrder /\ [][mPageMatch # 0 => probed' = probed]_vars

\* the first legacy URL hits on its second candidate; a candidate of the
\* second legacy URL is the key of another page and is never probed
C21_Witness ==
    /\ mpc = "tail"
    /\ Len(mOldUrls) = 2
    /\ urlAt = 1
    /\ Len(probed) = 2
    /\ \A flat \in {FlatCandidates(mOldUrls)} :
          /\ MinOf(KeyedAt(flat)) = 2
          /\ \E k \in KeyedAt(flat) :
                /\ k > Len(candsAt(mOldUrls, 1))
                /\ mByExact[flat[k]] # mByExact[flat[2]]
          /\ mPageMatch = mByExact[flat[2]]

(***************************************************************************)
(* The scoring pass of tier 3                                              *)
(***************************************************************************)
\* 2 for every token of the list that the text holds
RECURSIVE TokenPoints(_, _)
TokenPoints(text, tks) ==
    IF tks = <<>> THEN 0
    ELSE (IF includes(text, Head(tks)) THEN 2 ELSE 0)
           + TokenPoints(text, Tail(tks))

\* the score of page k in a pass that prefers lang
ScoreOf(k, lang) ==
    (IF includes(toLowerCase(mPages[k].link), "/" \o lang \o "/") THEN 3 ELSE 0)
      + TokenPoints(toLowerCase(mPages[k].link), mTokens)

\* the page of a pass has the highest score and is the first that has it
FirstOfBest(r, lang) ==
    /\ r \in 1..Len(mPages)
    /\ \A k \in 1..Len(mPages) :
          /\ ScoreOf(k, lang) <= ScoreOf(r, lang)
          /\ k < r => ScoreOf(k, lang) < ScoreOf(r, lang)

\* C22: in a scoring pass the score of a page is 3 when its lower-cased
\* link holds /<preferred language>/ plus 2 for every surviving token that
\* its lower-cased link holds; the page the pass returns has the highest
\* score of all pages and is the first page of the list with that score.
C22_ScoreAndTieBreak ==
    \A j \in 1..Len(passes) :
        /\ \A k \in 1..Len(mPages) :
              scorePageForTokens(mPages[k].link, mTokens, passes[j].lang)
                  = ScoreOf(k, passes[j].lang)
        /\ passes[j].page # 0 => FirstOfBest(passes[j].page, passes[j].lang)
        /\ passes[j].page = 0 =>
              \/ mTokens = <<>>
              \/ \A k \in 1..Len(mPages) : ScoreOf(k, passes[j].lang) < 2

\* tokens foo and bar: the pages score 4, 5 and 5 in the Dutch pass and the
\* second page is returned
C22_Witness ==
    /\ passes # <<>>
    /\ passes[1] = [lang |-> "nl", page |-> 2]
    /\ mTokens = <<"foo", "bar">>
    /\ Len(mPages) = 3
    /\ ScoreOf(1, "nl") = 4
    /\ ScoreOf(2, "nl") = 5
    /\ ScoreOf(3, "nl") = 5

(***************************************************************************)
(* The two passes of tier 3                                                *)
(***************************************************************************)
\* the token step has read the slug
Tokenized == mpc \in {"nl", "en"} \/ passes # <<>>

\* the surviving tokens are words of letters and digits held by the
\* lower-cased slug, at least 3 characters long and no stop words; the
\* slugs made of short words and stop words leave none
Survivors ==
    /\ \A k \in 1..Len(mTokens) :
          /\ Len(mTokens[k]) >= 3
          /\ mTokens[k] \notin {"golf", "of", "the", "and", "tour", "tours",
                                "short", "break", "links", "experience",
                                "test"}
          /\ \A c \in 1..Len(mTokens[k]) : Ch(mTokens[k], c) \in AlnumChars
          /\ includes(toLowerCase(mSlug), mTokens[k])
    /\ mSlug \in {"/golfreizen/the-tour", "/x/ab-12-Golf/"} => mTokens = <<>>
    /\ mSlug = "/golfreizen/schotland/zzz-links/" => mTokens = <<"zzz">>

\* the passes made and the result of tier 3
Fallback ==
    /\ Len(passes) <= 2
    /\ Len(passes) >= 1 => passes[1].lang = "nl"
    /\ Len(passes) = 2 => passes[1].page = 0 /\ passes[2].lang = "en"
    /\ mpc = "en" => Len(passes) = 1 /\ passes[1].page = 0
    /\ (mpc = "done" /\ passes # <<>>) =>
          /\ passes[1].page # 0 =>
                Len(passes) = 1 /\ mPageMatch = passes[1].page
          /\ passes[1].page = 0 =>
                Len(passes) = 2 /\ mPageMatch = passes[2].page
          /\ mPageMatch = 0 <=> \A j \in 1..Len(passes) : passes[j].page = 0
          /\ mPageMatch = tier3(0, mPages, mSlug)
    /\ mTokens = <<>> => \A j \in 1..Len(passes) : passes[j].page = 0

\* C23: the pass that prefers Dutch runs first and its page is the result
\* of tier 3 whenever it returns one; the pass that prefers English runs
\* only when the Dutch pass returned no page, and tier 3 yields no match
\* only when both passes return none.  When the last segment of the slug
\* leaves no surviving token, neither pass returns a page.
C23_LanguageFallback == Tokenized => Survivors /\ Fallback

\* token zzz against the page http://g.nl/en/bar/: the Dutch pass returns
\* no page, the English pass runs and its page is the result
C23_Witness ==
    /\ mpc = "done"
    /\ mTokens = <<"zzz">>
    /\ Len(passes) = 2
    /\ passes[1] = [lang |-> "nl", page |-> 0]
    /\ passes[2] = [lang |-> "en", page |-> 1]
    /\ mPageMatch = 1

=============================================================================
